---- MODULE Spec2Model ----
(***************************************************************************)
(* Verification model of the scripture normalization scripts:              *)
(*   scripts/kjv_pronouns.py  (KJV-gated pronoun normalization)            *)
(*   scripts/polish.py        (deterministic enforcement and polish pass)  *)
(*   scripts/suggest_caps.py, scripts/apply_caps.py  (reviewed overrides)  *)
(*   scripts/translate.py     (the translator and its --resume)            *)
(* Texts are sequences of one-character strings, so that the regular       *)
(* expressions of the source (word boundaries, lazy groups, look-ahead)    *)
(* are modelled by what they match, character by character.                *)
(***************************************************************************)
EXTENDS Integers, Sequences, FiniteSets, TLC

\* ------------------------------------------------------------------------
\* Characters (Python's re module, str patterns)
\* ------------------------------------------------------------------------

LowerLetters == <<"a","b","c","d","e","f","g","h","i","j","k","l","m",
                  "n","o","p","q","r","s","t","u","v","w","x","y","z">>

UpperLetters == <<"A","B","C","D","E","F","G","H","I","J","K","L","M",
                  "N","O","P","Q","R","S","T","U","V","W","X","Y","Z">>

Digits == {"0","1","2","3","4","5","6","7","8","9"}

Range(f) == {f[x] : x \in DOMAIN f}

\* \w : letters, digits and the underscore
WordChars == Range(LowerLetters) \cup Range(UpperLetters) \cup Digits \cup {"_"}

\* \s : the whitespace characters
SpaceChars == {" ", "\n", "\r", "\t"}

\* str.lower() of one character
LowerMap == [c \in Range(UpperLetters) |->
               LowerLetters[CHOOSE k \in DOMAIN UpperLetters : UpperLetters[k] = c]]

Lower(c) == IF c \in DOMAIN LowerMap THEN LowerMap[c] ELSE c

IsWordChar(c) == c \in WordChars

Min(S) == CHOOSE x \in S : \A y \in S : x <= y

Max(S) == CHOOSE x \in S : \A y \in S : x >= y

\* ------------------------------------------------------------------------
\* Regular expressions: the constructs the source's patterns use.
\* A pattern is a sequence of elements; position i is the index of the next
\* character to consume (1 .. Len(s)+1).
\* ------------------------------------------------------------------------

\* \b at position i: exactly one of s[i-1], s[i] is a word character
AtBoundary(s, i) ==
    LET before == i > 1 /\ i - 1 <= Len(s) /\ IsWordChar(s[i - 1])
        after  == i >= 1 /\ i <= Len(s) /\ IsWordChar(s[i])
    IN  before # after

\* the literal w occurs in s at position i (ic: re.IGNORECASE)
LitAt(s, i, w, ic) ==
    /\ i + Len(w) - 1 <= Len(s)
    /\ \A k \in 1..Len(w) :
          IF ic THEN Lower(s[i + k - 1]) = Lower(w[k]) ELSE s[i + k - 1] = w[k]

\* number of consecutive characters of s from position i that are in set C
RECURSIVE RunLen(_, _, _)
RunLen(s, i, C) ==
    IF i <= Len(s) /\ s[i] \in C THEN 1 + RunLen(s, i + 1, C) ELSE 0

NoMatch == [ok |-> FALSE, end |-> 0, caps |-> <<>>]

B == [k |-> "b"]                         \* \b
Plus(C) == [k |-> "plus", c |-> C]       \* [C]+  (greedy)
Cls(C) == [k |-> "cls", c |-> C]         \* [C]
Opt(w) == [k |-> "opt", w |-> w]         \* (w)?  (greedy)
Lit(w) == [k |-> "lit", w |-> w]         \* literal text
Alt(ws) == [k |-> "alt", ws |-> ws]      \* (w1|w2|...) capturing, tried in order
Lazy(C) == [k |-> "lazy", c |-> C]       \* ([C]+?) capturing, shortest first
NotAhead(p) == [k |-> "nla", p |-> p]    \* (?!p)

\* Backtracking match of the elements p[k..] at position i; the result is the
\* first success in Python's search order (alternatives left to right, greedy
\* repetition longest first, lazy repetition shortest first).
RECURSIVE M(_, _, _, _, _, _)
M(p, ic, s, k, i, caps) ==
    IF k > Len(p) THEN [ok |-> TRUE, end |-> i, caps |-> caps]
    ELSE LET e == p[k] IN
      CASE e.k = "b" ->
             IF AtBoundary(s, i) THEN M(p, ic, s, k + 1, i, caps) ELSE NoMatch
        [] e.k = "lit" ->
             IF LitAt(s, i, e.w, ic)
             THEN M(p, ic, s, k + 1, i + Len(e.w), caps) ELSE NoMatch
        [] e.k = "alt" ->
             LET try(j) == IF LitAt(s, i, e.ws[j], ic)
                           THEN M(p, ic, s, k + 1, i + Len(e.ws[j]),
                                  Append(caps, SubSeq(s, i, i + Len(e.ws[j]) - 1)))
                           ELSE NoMatch
                 js == {j \in 1..Len(e.ws) : try(j).ok}
             IN  IF js = {} THEN NoMatch ELSE try(Min(js))
        [] e.k = "plus" ->
             LET ns == {n \in 1..RunLen(s, i, e.c) :
                           M(p, ic, s, k + 1, i + n, caps).ok}
             IN  IF ns = {} THEN NoMatch ELSE M(p, ic, s, k + 1, i + Max(ns), caps)
        [] e.k = "cls" ->
             IF i <= Len(s) /\ s[i] \in e.c
             THEN M(p, ic, s, k + 1, i + 1, caps) ELSE NoMatch
        [] e.k = "opt" ->
             LET with == IF LitAt(s, i, e.w, ic)
                         THEN M(p, ic, s, k + 1, i + Len(e.w),
                                Append(caps, SubSeq(s, i, i + Len(e.w) - 1)))
                         ELSE NoMatch
             IN  IF with.ok THEN with ELSE M(p, ic, s, k + 1, i, Append(caps, <<>>))
        [] e.k = "lazy" ->
             LET try(n) == M(p, ic, s, k + 1, i + n,
                             Append(caps, SubSeq(s, i, i + n - 1)))
                 ns == {n \in 1..RunLen(s, i, e.c) : try(n).ok}
             IN  IF ns = {} THEN NoMatch ELSE try(Min(ns))
        [] e.k = "nla" ->
             IF M(e.p, ic, s, 1, i, <<>>).ok THEN NoMatch
             ELSE M(p, ic, s, k + 1, i, caps)

WS == Plus(SpaceChars)                   \* \s+

\* pattern.search(s): is there a match anywhere in s
Search(p, ic, s) == \E i \in 1..Len(s) : M(p, ic, s, 1, i, <<>>).ok

\* pattern.search(s): the leftmost match, with its span [start, end)
FirstMatch(p, ic, s) ==
    LET is == {i \in 1..Len(s) : M(p, ic, s, 1, i, <<>>).ok}
    IN  IF is = {} THEN [ok |-> FALSE, start |-> 0, end |-> 0, caps |-> <<>>]
        ELSE LET r == M(p, ic, s, 1, Min(is), <<>>)
             IN  [ok |-> TRUE, start |-> Min(is), end |-> r.end, caps |-> r.caps]

\* list(pattern.finditer(s)) for a pattern given by its alternatives ps, tried
\* in order at each position: the non-overlapping matches from position i on
RECURSIVE FindAllFrom(_, _, _, _)
FindAllFrom(ps, ic, s, i) ==
    IF i > Len(s) THEN <<>>
    ELSE LET js == {j \in DOMAIN ps : M(ps[j], ic, s, 1, i, <<>>).ok} IN
         IF js = {} THEN FindAllFrom(ps, ic, s, i + 1)
         ELSE LET r == M(ps[Min(js)], ic, s, 1, i, <<>>) IN
              IF r.end > i
              THEN <<[start |-> i, end |-> r.end, caps |-> r.caps]>>
                   \o FindAllFrom(ps, ic, s, r.end)
              ELSE FindAllFrom(ps, ic, s, i + 1)

FindAll(ps, ic, s) == FindAllFrom(ps, ic, s, 1)

\* Replacement templates: a sequence of pieces, each literal text, a group
\* reference \n, or a function applied to the whole match (a repl callable).
T(w) == [k |-> "t", w |-> w]
G(n) == [k |-> "g", n |-> n]
Fn(f) == [k |-> "fn", f |-> f]

RECURSIVE Expand(_, _, _)
Expand(t, caps, whole) ==
    IF t = <<>> THEN <<>>
    ELSE LET h == Head(t) IN
         (CASE h.k = "t" -> h.w
            [] h.k = "g" -> caps[h.n]
            [] h.k = "fn" -> h.f[whole])
         \o Expand(Tail(t), caps, whole)

\* re.sub(p, t, s): every non-overlapping match, leftmost first, is replaced
RECURSIVE SubFrom(_, _, _, _, _)
SubFrom(p, ic, t, s, i) ==
    IF i > Len(s) THEN <<>>
    ELSE LET r == M(p, ic, s, 1, i, <<>>) IN
         IF r.ok /\ r.end > i
         THEN Expand(t, r.caps, SubSeq(s, i, r.end - 1)) \o SubFrom(p, ic, t, s, r.end)
         ELSE <<s[i]>> \o SubFrom(p, ic, t, s, i + 1)

Sub(p, ic, t, s) == SubFrom(p, ic, t, s, 1)

\* ------------------------------------------------------------------------
\* Words and texts
\* ------------------------------------------------------------------------

w_he == <<"h", "e">>

w_him == <<"h", "i", "m">>

w_his == <<"h", "i", "s">>

w_himself == <<"h", "i", "m", "s", "e", "l", "f">>

w_He == <<"H", "e">>

w_Him == <<"H", "i", "m">>

w_His == <<"H", "i", "s">>

w_Himself == <<"H", "i", "m", "s", "e", "l", "f">>

w_the == <<"t", "h", "e">>

w_she == <<"s", "h", "e">>

w_God == <<"G", "o", "d">>

w_LORD == <<"L", "O", "R", "D">>

w_Lord == <<"L", "o", "r", "d">>

w_GOD == <<"G", "O", "D">>

w_Moses == <<"M", "o", "s", "e", "s">>

w_said == <<"s", "a", "i", "d">>

w_light == <<"l", "i", "g", "h", "t">>

SP == <<" ">>

\* the words of ws joined by single spaces
RECURSIVE Join(_)
Join(ws) ==
    IF ws = <<>> THEN <<>>
    ELSE IF Len(ws) = 1 THEN ws[1]
    ELSE ws[1] \o SP \o Join(Tail(ws))

\* every text of at most n words of the vocabulary V
TextsOf(V, n) == {Join(ws) : ws \in UNION {[1..m -> V] : m \in 0..n}}

\* ------------------------------------------------------------------------
\* scripts/kjv_pronouns.py
\* ------------------------------------------------------------------------

DIV_CAP_RE == <<B, Alt(<<w_He, w_Him, w_His, w_Himself>>), B>>

HUM_LOW_RE == <<B, Alt(<<w_he, w_him, w_his, w_himself>>), B>>

LOW_TO_CAP == (w_he :> w_He) @@ (w_him :> w_Him) @@ (w_his :> w_His)
              @@ (w_himself :> w_Himself)

CAP_TO_LOW == [v \in Range(LOW_TO_CAP) |->
                 CHOOSE k \in DOMAIN LOW_TO_CAP : LOW_TO_CAP[k] = v]

LOW_REPLACE_RE == <<B, Alt(<<w_he, w_him, w_his, w_himself>>), B>>

CAP_REPLACE_RE == <<B, Alt(<<w_He, w_Him, w_His, w_Himself>>), B>>

\* classify_kjv with the lowercase pattern lacking its word boundaries
classify_kjv_substring(text) ==
    LET has_div == Search(DIV_CAP_RE, FALSE, text)
        has_hum == Search(<<Alt(<<w_he, w_him, w_his, w_himself>>)>>, FALSE, text)
    IN  IF has_div /\ has_hum THEN "mixed"
        ELSE IF has_div THEN "divine_only"
        ELSE IF has_hum THEN "human_only"
        ELSE "none"

classify_kjv(text) ==
    LET has_div == Search(DIV_CAP_RE, FALSE, text)
        has_hum == Search(HUM_LOW_RE, FALSE, text)
    IN  IF has_div /\ has_hum THEN "mixed"
        ELSE IF has_div THEN "divine_only"
        ELSE IF has_hum THEN "human_only"
        ELSE "none"

\* force_cap with a pattern lacking its word boundaries
force_cap_substring(text) ==
    Sub(<<Alt(<<w_he, w_him, w_his, w_himself>>)>>, FALSE, <<Fn(LOW_TO_CAP)>>, text)

force_cap(text) == Sub(LOW_REPLACE_RE, FALSE, <<Fn(LOW_TO_CAP)>>, text)

\* force_decap with a pattern that misses Himself
force_decap_short(text) ==
    Sub(<<B, Alt(<<w_He, w_Him, w_His>>), B>>, FALSE, <<Fn(CAP_TO_LOW)>>, text)

force_decap(text) == Sub(CAP_REPLACE_RE, FALSE, <<Fn(CAP_TO_LOW)>>, text)

\* ------------------------------------------------------------------------
\* scripts/polish.py: text normalization and deterministic enforcement
\* ------------------------------------------------------------------------

Punctuation == {",", ";", ".", ":", "'", "-", "#", "!", "?"}

AllChars == WordChars \cup SpaceChars \cup Punctuation

\* the character class [^,;]
NotCommaSemi == AllChars \ {",", ";"}

\* s without its leading whitespace
RECURSIVE LStrip(_)
LStrip(s) == IF s # <<>> /\ Head(s) \in SpaceChars THEN LStrip(Tail(s)) ELSE s

\* s without its trailing whitespace
RECURSIVE RStrip(_)
RStrip(s) ==
    IF s # <<>> /\ s[Len(s)] \in SpaceChars THEN RStrip(SubSeq(s, 1, Len(s) - 1)) ELSE s

\* str.strip()
Strip(s) == RStrip(LStrip(s))

\* re.sub(r"\s+", " ", s).strip()
normalize_space(s) == Strip(Sub(<<WS>>, FALSE, <<T(SP)>>, s))

\* s.replace(a, b) for single characters a
ReplaceChar(s, a, b) == [i \in 1..Len(s) |-> IF s[i] = a THEN b ELSE s[i]]

strip_internal_linebreaks(s) ==
    normalize_space(ReplaceChar(ReplaceChar(s, "\r", " "), "\n", " "))

\* "w in s"
Contains(s, w) == \E i \in 1..Len(s) : LitAt(s, i, w, FALSE)

\* enforce_between_from without its substitutions after the third
enforce_between_from_short(text) ==
    LET t1 == Sub(<<B, Lit(<<"s","e","p","a","r","a","t","e","d"," ","b","e","t","w","e","e","n">>), B>>, TRUE, <<T(<<"s","e","p","a","r","a","t","e","d">>)>>, text)
        t2 == Sub(<<B, Lit(<<"d","i","v","i","d">>), Alt(<<<<"e">>, <<"i","n","g">>>>), Lit(<<" ","b","e","t","w","e","e","n">>), B>>, TRUE,
                  <<T(<<"d","i","v","i","d">>), G(1)>>, t1)
        t3 == Sub(<<B, Lit(<<"t","o"," ","d","i","v","i","d","e">>), WS, Lit(<<"b","e","t","w","e","e","n">>), WS, Lazy(NotCommaSemi),
                    WS, Lit(<<"a","n","d">>), WS, Lit(<<"b","e","t","w","e","e","n">>), WS, Lazy(NotCommaSemi), B>>, TRUE,
                  <<T(<<"t","o"," ","d","i","v","i","d","e"," ">>), G(1), T(<<" ","f","r","o","m"," ">>), G(2)>>, t2)
    IN  t3

enforce_between_from(text) ==
    LET t1 == Sub(<<B, Lit(<<"s","e","p","a","r","a","t","e","d"," ","b","e","t","w","e","e","n">>), B>>, TRUE, <<T(<<"s","e","p","a","r","a","t","e","d">>)>>, text)
        t2 == Sub(<<B, Lit(<<"d","i","v","i","d">>), Alt(<<<<"e">>, <<"i","n","g">>>>), Lit(<<" ","b","e","t","w","e","e","n">>), B>>, TRUE,
                  <<T(<<"d","i","v","i","d">>), G(1)>>, t1)
        t3 == Sub(<<B, Lit(<<"t","o"," ","d","i","v","i","d","e">>), WS, Lit(<<"b","e","t","w","e","e","n">>), WS, Lazy(NotCommaSemi),
                    WS, Lit(<<"a","n","d">>), WS, Lit(<<"b","e","t","w","e","e","n">>), WS, Lazy(NotCommaSemi), B>>, TRUE,
                  <<T(<<"t","o"," ","d","i","v","i","d","e"," ">>), G(1), T(<<" ","f","r","o","m"," ">>), G(2)>>, t2)
        t4 == Sub(<<B, Lit(<<"t","o"," ","d","i","v","i","d","e">>), WS, Lazy(NotCommaSemi),
                    WS, Lit(<<"a","n","d">>), WS, Lit(<<"b","e","t","w","e","e","n">>), WS, Lazy(NotCommaSemi), B>>, TRUE,
                  <<T(<<"t","o"," ","d","i","v","i","d","e"," ">>), G(1), T(<<" ","f","r","o","m"," ">>), G(2)>>, t3)
        t5 == Sub(<<B, Lit(<<"s","e","p","a","r","a","t","e","d">>), WS, Lit(<<"b","e","t","w","e","e","n">>), WS, Lazy(NotCommaSemi),
                    WS, Lit(<<"a","n","d">>), WS, Lit(<<"t","h","e">>), WS, Lazy(NotCommaSemi), B>>, TRUE,
                  <<T(<<"s","e","p","a","r","a","t","e","d"," ">>), G(1), T(<<" ","f","r","o","m"," ","t","h","e"," ">>), G(2)>>, t4)
        t6 == Sub(<<B, Lit(<<"s","e","p","a","r","a","t","e","d">>), WS, Lit(<<"b","e","t","w","e","e","n">>), WS, Lazy(NotCommaSemi),
                    WS, Lit(<<"a","n","d">>), WS, Lazy(NotCommaSemi), B>>, TRUE,
                  <<T(<<"s","e","p","a","r","a","t","e","d"," ">>), G(1), T(<<" ","f","r","o","m"," ">>), G(2)>>, t5)
    IN  t6

enforce_lord_caps(text) ==
    LET t1 == Sub(<<B, Lit(<<"t","h","e"," ","L","o","r","d"," ","G","O","D">>), B>>, FALSE, <<T(<<"t","h","e"," ","L","o","r","d"," ","G","O","D">>)>>, text)
        t2 == Sub(<<B, Lit(<<"L","o","r","d"," ","G","o","d">>), B>>, FALSE, <<T(<<"L","O","R","D"," ","G","o","d">>)>>, t1)
        t3 == Sub(<<B, Lit(<<"A","n","d"," ","t","h","e"," ","L","o","r","d"," ","s","a","i","d">>), B>>, FALSE,
                  <<T(<<"A","n","d"," ","t","h","e"," ","L","O","R","D"," ","s","a","i","d">>)>>, t2)
        t4 == Sub(<<B, Lit(<<"t","h","e"," ","L","o","r","d">>), B, NotAhead(<<WS, Lit(<<"G","O","D">>), B>>)>>, FALSE,
                  <<T(<<"t","h","e"," ","L","O","R","D">>)>>, t3)
        t5 == Sub(<<B, Lit(<<"a","n","g","e","l"," ","o","f"," ","t","h","e"," ","L","o","r","d">>), B>>, FALSE,
                  <<T(<<"a","n","g","e","l"," ","o","f"," ","t","h","e"," ","L","O","R","D">>)>>, t4)
    IN  t5

UnitWords == <<<<"o","n","e">>, <<"t","w","o">>, <<"t","h","r","e","e">>, <<"f","o","u","r">>, <<"f","i","v","e">>, <<"s","i","x">>, <<"s","e","v","e","n">>, <<"e","i","g","h","t">>, <<"n","i","n","e">>>>

enforce_compound_numbers(text) ==
    LET t1 == Sub(<<B, Alt(<<<<"s","i","x","t","y">>, <<"s","e","v","e","n","t","y">>, <<"e","i","g","h","t","y">>, <<"n","i","n","e","t","y">>>>), WS, Lit(<<"a","n","d">>), WS,
                    Alt(UnitWords), B>>, TRUE, <<G(1), T(<<"-">>), G(2)>>, text)
        t2 == Sub(<<B, Alt(<<<<"t","w","e","n","t","y">>, <<"t","h","i","r","t","y">>, <<"f","o","r","t","y">>, <<"f","i","f","t","y">>>>), WS, Lit(<<"a","n","d">>), WS,
                    Alt(UnitWords), B>>, TRUE, <<G(1), T(<<"-">>), G(2)>>, t1)
    IN  t2

\* the resolver without its divine-marker test
enforce_reverential_pronouns_always(text) ==
    LET t1 == Sub(<<B, Lit(<<"h","e">>), B>>, FALSE, <<T(<<"H","e">>)>>, text)
        t2 == Sub(<<B, Lit(<<"h","i","m">>), B>>, FALSE, <<T(<<"H","i","m">>)>>, t1)
        t3 == Sub(<<B, Lit(<<"h","i","s">>), B>>, FALSE, <<T(<<"H","i","s">>)>>, t2)
        t4 == Sub(<<B, Lit(<<"h","i","m","s","e","l","f">>), B>>, FALSE, <<T(<<"H","i","m","s","e","l","f">>)>>, t3)
    IN  t4

\* the resolver with pattern and replacement of its first rule exchanged
enforce_reverential_pronouns_swapped(text) ==
    IF ~Search(<<B, Alt(<<<<"G","o","d">>, <<"L","O","R","D">>, <<"L","o","r","d"," ","G","O","D">>, <<"t","h","e"," ","L","O","R","D">>>>), B>>, FALSE, text)
    THEN text
    ELSE LET t1 == Sub(<<B, Lit(<<"H","e">>), B>>, FALSE, <<T(<<"h","e">>)>>, text)
             t2 == Sub(<<B, Lit(<<"h","i","m">>), B>>, FALSE, <<T(<<"H","i","m">>)>>, t1)
             t3 == Sub(<<B, Lit(<<"h","i","s">>), B>>, FALSE, <<T(<<"H","i","s">>)>>, t2)
             t4 == Sub(<<B, Lit(<<"h","i","m","s","e","l","f">>), B>>, FALSE, <<T(<<"H","i","m","s","e","l","f">>)>>, t3)
         IN  t4

enforce_reverential_pronouns_minimal(text) ==
    IF ~Search(<<B, Alt(<<<<"G","o","d">>, <<"L","O","R","D">>, <<"L","o","r","d"," ","G","O","D">>, <<"t","h","e"," ","L","O","R","D">>>>), B>>, FALSE, text)
    THEN text
    ELSE LET t1 == Sub(<<B, Lit(<<"h","e">>), B>>, FALSE, <<T(<<"H","e">>)>>, text)
             t2 == Sub(<<B, Lit(<<"h","i","m">>), B>>, FALSE, <<T(<<"H","i","m">>)>>, t1)
             t3 == Sub(<<B, Lit(<<"h","i","s">>), B>>, FALSE, <<T(<<"H","i","s">>)>>, t2)
             t4 == Sub(<<B, Lit(<<"h","i","m","s","e","l","f">>), B>>, FALSE, <<T(<<"H","i","m","s","e","l","f">>)>>, t3)
         IN  t4

\* validate_enforcement without its check
validate_enforcement_off(text) == TRUE

\* TRUE when validate_enforcement returns, FALSE when it raises ValueError
validate_enforcement(text) ==
    ~(Contains(text, <<"a","n","g","e","l"," ","o","f"," ","t","h","e"," ","L","O","R","D">>) /\ Contains(text, <<"a","n","g","e","l"," ","o","f"," ","t","h","e"," ","L","o","r","d">>))

\* the four rules of apply_enforcement, in its order; each intermediate text
\* is bound to a name as the assignments text = rule(text) do
enforced(text) ==
    CHOOSE t4 \in
        {enforce_reverential_pronouns_minimal(t3) : t3 \in
            {enforce_compound_numbers(t2) : t2 \in
                {enforce_between_from(t1) : t1 \in {enforce_lord_caps(text)}}}} : TRUE

\* ok: apply_enforcement returns text; ~ok: it raises ValueError
apply_enforcement(text) ==
    CHOOSE r \in {[ok |-> validate_enforcement(e), text |-> e] : e \in {enforced(text)}} :
        TRUE

\* ------------------------------------------------------------------------
\* scripts/polish.py: the similarity guard, the heritage phrase locks and
\* the KJV case normalization
\* ------------------------------------------------------------------------

\* [A-Za-z]
Letters == Range(LowerLetters) \cup Range(UpperLetters)

\* str.upper() of one character
UpperMap == [c \in Range(LowerLetters) |->
               UpperLetters[CHOOSE k \in DOMAIN LowerLetters : LowerLetters[k] = c]]

Upper(c) == IF c \in DOMAIN UpperMap THEN UpperMap[c] ELSE c

\* str.lower() and str.upper()
LowerStr(s) == [i \in 1..Len(s) |-> Lower(s[i])]

UpperStr(s) == [i \in 1..Len(s) |-> Upper(s[i])]

\* str.isupper() and str.islower(): a cased character, and none of the other case
IsUpperStr(s) ==
    /\ \E i \in 1..Len(s) : s[i] \in Range(UpperLetters)
    /\ \A i \in 1..Len(s) : s[i] \notin Range(LowerLetters)

IsLowerStr(s) ==
    /\ \E i \in 1..Len(s) : s[i] \in Range(LowerLetters)
    /\ \A i \in 1..Len(s) : s[i] \notin Range(UpperLetters)

\* the prefixes of a commentary line, compared with r.lower()
CommentaryPrefixes == {<<"n","o","t","e",":">>, <<"c","o","m","m","e","n","t","a","r","y",":">>, <<"e","x","p","l","a","n","a","t","i","o","n",":">>, <<"t","r","a","n","s","l","a","t","o","r">>}

\* similarity_guard rejecting a candidate of exactly 60% or 160%
similarity_guard_strict(original, revised) ==
    CHOOSE res \in
      {IF r = <<>> THEN [ok |-> FALSE, reason |-> "empty_output"]
       ELSE IF r[1] = "#" \/ \E w \in CommentaryPrefixes : LitAt(r, 1, w, TRUE)
       THEN [ok |-> FALSE, reason |-> "commentary_or_heading"]
       ELSE IF M(<<Plus(Digits), Cls(SpaceChars)>>, FALSE, r, 1, 1, <<>>).ok
       THEN [ok |-> FALSE, reason |-> "added_verse_number"]
       ELSE IF o >= 20 /\ 100 * Len(r) <= 60 * Max({1, o})
       THEN [ok |-> FALSE, reason |-> "too_short"]
       ELSE IF o >= 20 /\ 100 * Len(r) >= 160 * Max({1, o})
       THEN [ok |-> FALSE, reason |-> "too_long"]
       ELSE [ok |-> TRUE, reason |-> "ok"]
       : r \in {normalize_space(revised)}, o \in {Len(normalize_space(original))}} : TRUE

\* the result (ok, reason) of similarity_guard; len(r) / len(o) < 0.60 and
\* > 1.60 are decided on the integers (the quotient of two lengths is
\* rounded to the same double as 0.60 or 1.60 only when it equals it)
similarity_guard(original, revised) ==
    CHOOSE res \in
      {IF r = <<>> THEN [ok |-> FALSE, reason |-> "empty_output"]
       ELSE IF r[1] = "#" \/ \E w \in CommentaryPrefixes : LitAt(r, 1, w, TRUE)
       THEN [ok |-> FALSE, reason |-> "commentary_or_heading"]
       ELSE IF M(<<Plus(Digits), Cls(SpaceChars)>>, FALSE, r, 1, 1, <<>>).ok
       THEN [ok |-> FALSE, reason |-> "added_verse_number"]
       ELSE IF o >= 20 /\ 100 * Len(r) < 60 * Max({1, o})
       THEN [ok |-> FALSE, reason |-> "too_short"]
       ELSE IF o >= 20 /\ 100 * Len(r) > 160 * Max({1, o})
       THEN [ok |-> FALSE, reason |-> "too_long"]
       ELSE [ok |-> TRUE, reason |-> "ok"]
       : r \in {normalize_space(revised)}, o \in {Len(normalize_space(original))}} : TRUE

dearchaize_pronouns(s) ==
    LET o1 == Sub(<<B, Lit(<<"t","h","o","u">>), B>>, TRUE, <<T(<<"Y","o","u">>)>>, s)
        o2 == Sub(<<B, Lit(<<"t","h","e","e">>), B>>, TRUE, <<T(<<"Y","o","u">>)>>, o1)
        o3 == Sub(<<B, Lit(<<"t","h","y">>), B>>, TRUE, <<T(<<"Y","o","u","r">>)>>, o2)
        o4 == Sub(<<B, Lit(<<"t","h","i","n","e">>), B>>, TRUE, <<T(<<"Y","o","u","r">>)>>, o3)
    IN  o4

\* the inner function apply_common_subs of enforce_phrase_locks
apply_common_subs(t_in, lock) ==
    LET a1 == IF LowerStr(lock) = <<"i"," ","s","h","a","l","l"," ","n","o","t"," ","w","a","n","t">>
              THEN Sub(<<B, Lit(<<"I"," ","d","o"," ","n","o","t"," ","l","a","c","k">>), B>>, FALSE, <<T(<<"I"," ","s","h","a","l","l"," ","n","o","t"," ","w","a","n","t">>)>>,
                   Sub(<<B, Lit(<<"I"," ","w","i","l","l"," ","n","o","t"," ","l","a","c","k">>), B>>, FALSE, <<T(<<"I"," ","s","h","a","l","l"," ","n","o","t"," ","w","a","n","t">>)>>,
                   Sub(<<B, Lit(<<"I"," ","s","h","a","l","l"," ","n","o","t"," ","l","a","c","k">>), B>>, FALSE, <<T(<<"I"," ","s","h","a","l","l"," ","n","o","t"," ","w","a","n","t">>)>>, t_in)))
              ELSE t_in
        a2 == IF LowerStr(lock) = <<"t","h","e"," ","v","a","l","l","e","y"," ","o","f"," ","t","h","e"," ","s","h","a","d","o","w"," ","o","f"," ","d","e","a","t","h">>
              THEN Sub(<<B, Lit(<<"v","a","l","l","e","y"," ","o","f"," ">>), Opt(<<"t","h","e"," ">>), Lit(<<"d","a","r","k","e","s","t"," ","s","h","a","d","o","w">>), B>>, TRUE,
                       <<T(<<"v","a","l","l","e","y"," ","o","f"," ","t","h","e"," ","s","h","a","d","o","w"," ","o","f"," ","d","e","a","t","h">>)>>,
                   Sub(<<B, Lit(<<"v","a","l","l","e","y"," ","o","f"," ">>), Opt(<<"t","h","e"," ">>), Lit(<<"d","e","e","p","e","s","t"," ","s","h","a","d","o","w">>), B>>, TRUE,
                       <<T(<<"v","a","l","l","e","y"," ","o","f"," ","t","h","e"," ","s","h","a","d","o","w"," ","o","f"," ","d","e","a","t","h">>)>>, a1))
              ELSE a1
        a3 == IF LowerStr(lock) \in {<<"f","o","r"," ","e","v","e","r">>, <<"f","o","r"," ","e","v","e","r",".">>}
              THEN Sub(<<B, Lit(<<"f","o","r","e","v","e","r">>), B>>, TRUE, <<T(<<"f","o","r"," ","e","v","e","r">>)>>,
                   Sub(<<B, Lit(<<"f","o","r"," ","l","e","n","g","t","h"," ","o","f"," ","d","a","y","s">>), B>>, TRUE, <<T(<<"f","o","r"," ","e","v","e","r">>)>>, a2))
              ELSE a2
    IN  a3

\* the loop "for lock in locks" of enforce_phrase_locks, from lock k on
RECURSIVE LockLoop(_, _, _)
LockLoop(t, locks, k) ==
    IF k > Len(locks) THEN t
    ELSE IF locks[k] # <<>> /\ ~Contains(t, locks[k])
         THEN LockLoop(apply_common_subs(t, locks[k]), locks, k + 1)
         ELSE LockLoop(t, locks, k + 1)

\* [lk for lk in locks if lk and lk not in t]
MissingLocks(t, locks) ==
    SelectSeq(locks, LAMBDA lk : lk # <<>> /\ ~Contains(t, lk))

\* the result (text, missing) of enforce_phrase_locks; kjv_text is <<>> for
\* None and for the empty string, which the code does not tell apart
enforce_phrase_locks(text, locks, kjv_text) ==
    CHOOSE res \in
      {IF MissingLocks(t, locks) # <<>> /\ kjv_text # <<>>
          /\ MissingLocks(strip_internal_linebreaks(dearchaize_pronouns(kjv_text)), locks) = <<>>
       THEN [text |-> strip_internal_linebreaks(dearchaize_pronouns(kjv_text)), missing |-> <<>>]
       ELSE [text |-> t, missing |-> MissingLocks(t, locks)]
       : t \in {LockLoop(text, locks, 1)}} : TRUE

\* the length of the match of [A-Za-z]+(?:'[A-Za-z]+)? at position i, 0 if none
WordLenAt(s, i) ==
    LET n == RunLen(s, i, Letters)
        m == IF n >= 1 /\ i + n <= Len(s) /\ s[i + n] = "'"
             THEN RunLen(s, i + n + 1, Letters) ELSE 0
    IN  IF m >= 1 THEN n + 1 + m ELSE n

\* the length of the match of WORD_RE at position i, 0 if none
TokenLenAt(s, i) ==
    IF WordLenAt(s, i) > 0 THEN WordLenAt(s, i)
    ELSE IF RunLen(s, i, Digits) > 0 THEN RunLen(s, i, Digits)
    ELSE IF s[i] \notin WordChars \cup SpaceChars THEN 1
    ELSE 0

\* WORD_RE.findall over s[i..]
RECURSIVE TokenizeFrom(_, _)
TokenizeFrom(s, i) ==
    IF i > Len(s) THEN <<>>
    ELSE IF TokenLenAt(s, i) = 0 THEN TokenizeFrom(s, i + 1)
    ELSE <<SubSeq(s, i, i + TokenLenAt(s, i) - 1)>> \o TokenizeFrom(s, i + TokenLenAt(s, i))

tokenize(s) == TokenizeFrom(s, 1)

is_word(tok) == tok # <<>> /\ WordLenAt(tok, 1) = Len(tok)

\* str.isalpha() of one character
IsAlpha(c) == c \in Letters

apply_case_pattern(src, pattern) ==
    IF IsUpperStr(pattern) THEN UpperStr(src)
    ELSE IF IsLowerStr(pattern) THEN LowerStr(src)
    ELSE IF Len(pattern) > 1 /\ IsUpperStr(<<pattern[1]>>) /\ IsLowerStr(Tail(pattern))
    THEN <<Upper(src[1])>> \o LowerStr(Tail(src))
    ELSE [i \in 1..Len(src) |->
            IF i <= Len(pattern) /\ IsAlpha(pattern[i])
            THEN IF pattern[i] \in Range(UpperLetters) THEN Upper(src[i]) ELSE Lower(src[i])
            ELSE src[i]]

\* the first k of range(1, 4) at which the lookahead of the alignment loop
\* finds a word; 0 when it finds none (indices i, j are 1-based)
LookaheadA(a, b, i, j, k) ==
    i + k <= Len(a) /\ is_word(a[i + k]) /\ LowerStr(a[i + k]) = LowerStr(b[j])

LookaheadB(a, b, i, j, k) ==
    j + k <= Len(b) /\ is_word(b[j + k]) /\ LowerStr(a[i]) = LowerStr(b[j + k])

LookaheadK(a, b, i, j) ==
    LET ks == {k \in 1..3 : LookaheadA(a, b, i, j, k) \/ LookaheadB(a, b, i, j, k)}
    IN  IF ks = {} THEN 0 ELSE Min(ks)

\* the while loop of kjv_case_normalize_v2 from (i, j), out the tokens so far
RECURSIVE AlignLoop(_, _, _, _, _)
AlignLoop(a, b, out, i, j) ==
    IF ~(i <= Len(a) /\ j <= Len(b)) THEN out
    ELSE IF is_word(a[i]) /\ is_word(b[j]) /\ LowerStr(a[i]) = LowerStr(b[j])
    THEN AlignLoop(a, b, [out EXCEPT ![i] = apply_case_pattern(a[i], b[j])], i + 1, j + 1)
    ELSE IF ~is_word(a[i]) THEN AlignLoop(a, b, out, i + 1, j)
    ELSE IF ~is_word(b[j]) THEN AlignLoop(a, b, out, i, j + 1)
    ELSE LET k == LookaheadK(a, b, i, j) IN
         IF k = 0 THEN AlignLoop(a, b, out, i + 1, j + 1)
         ELSE IF LookaheadA(a, b, i, j, k) THEN AlignLoop(a, b, out, i + k, j)
         ELSE AlignLoop(a, b, out, i, j + k)

\* the punctuation join_tokens attaches to the left, opens with, and the
\* endings after which it adds no space
ClosePunct == {",", ".", ";", ":", "?", "!", ")", "]", "}"}

OpenPunct == {"(", "[", "{"}

OpenEndings == {"(", "[", "{", "\"", "'"}

\* the loop of join_tokens from token k on, s the string so far
RECURSIVE JoinLoop(_, _, _)
JoinLoop(tokens, k, s) ==
    IF k > Len(tokens) THEN s
    ELSE LET t == tokens[k] IN
         IF s = <<>> THEN JoinLoop(tokens, k + 1, t)
         ELSE IF Len(t) = 1 /\ t[1] \in ClosePunct THEN JoinLoop(tokens, k + 1, s \o t)
         ELSE IF Len(t) = 1 /\ t[1] \in OpenPunct THEN JoinLoop(tokens, k + 1, s \o SP \o t)
         ELSE IF s[Len(s)] \in OpenEndings THEN JoinLoop(tokens, k + 1, s \o t)
         ELSE JoinLoop(tokens, k + 1, s \o SP \o t)

join_tokens(tokens) == strip_internal_linebreaks(JoinLoop(tokens, 1, <<>>))

kjv_case_normalize_v2(text, kjv_text) ==
    join_tokens(AlignLoop(tokenize(text), tokenize(kjv_text), tokenize(text), 1, 1))


\* ------------------------------------------------------------------------
\* scripts/suggest_caps.py
\* ------------------------------------------------------------------------

DIVINE_ANCHORS == << <<B, Lit(<<"L","O","R","D">>), B>>,
                     <<B, Lit(<<"G","O","D">>), B>>,
                     <<B, Lit(<<"O">>), WS, Lit(<<"L","O","R","D">>), B>>,
                     <<B, Lit(<<"O">>), WS, Lit(<<"G","o","d">>), B>>,
                     <<B, Lit(<<"G","o","d">>), B>> >>

PRONOUN_RE == <<B, Alt(<<<<"h","e">>, <<"h","i","m">>, <<"h","i","s">>, <<"y","o","u">>, <<"y","o","u","r">>, <<"y","o","u","r","s">>, <<"h","i","m","s","e","l","f">>>>), B>>

NEAR_INVOCATION_RE == <<B, Lit(<<"O">>), WS, Alt(<<<<"L","O","R","D">>, <<"G","o","d">>>>), B>>

Possessives == Alt(<<<<"m","y">>, <<"o","u","r">>, <<"h","i","s">>, <<"t","h","e","i","r">>>>)

\* (rock|fortress|stronghold|high\s+tower): the one-word nouns, and the
\* two-word noun as an alternative of the whole pattern
TitleNouns == Alt(<<<<"r","o","c","k">>, <<"f","o","r","t","r","e","s","s">>, <<"s","t","r","o","n","g","h","o","l","d">>>>)

HighTower == <<Lit(<<"h","i","g","h">>), WS, Lit(<<"t","o","w","e","r">>)>>

POSSESSIVE_TITLE_RE == << <<B, Possessives, WS, TitleNouns, B>>,
                          <<B, Possessives, WS>> \o HighTower \o <<B>> >>

IS_TITLE_RE == << <<B, Lit(<<"i","s">>), WS, Possessives, WS, TitleNouns, B>>,
                  <<B, Lit(<<"i","s">>), WS, Possessives, WS>> \o HighTower \o <<B>> >>

SALVATION_TITLE_RE == << <<B, Possessives, WS, Lit(<<"s","a","l","v","a","t","i","o","n">>), B>> >>

\* has_anchor finding an anchor in every verse
has_anchor_always(text) == TRUE

\* ANCHOR_RE.search(text): the alternation of the anchors matches somewhere
has_anchor(text) == \E a \in DOMAIN DIVINE_ANCHORS : Search(DIVINE_ANCHORS[a], FALSE, text)

\* re.match(r"^\s*(God|The LORD|LORD)\b", text)
StartsWithDivineName(text) ==
    M(<<Alt(<<<<"G","o","d">>, <<"T","h","e"," ","L","O","R","D">>, <<"L","O","R","D">>>>), B>>, FALSE, text, 1,
      1 + RunLen(text, 1, SpaceChars), <<>>).ok

\* the float sums 0.55 (+ 0.25) (+ 0.15) (+ 0.05) in units of 1/10000: a sum
\* that exceeds its decimal value in binary floating point is one unit more
FloatScore == (55 :> 5500) @@ (60 :> 6001) @@ (70 :> 7001) @@ (75 :> 7501)
              @@ (80 :> 8000) @@ (85 :> 8501) @@ (95 :> 9501) @@ (100 :> 10000)

\* the score in units of 1/10000; match_start is the position of the
\* pronoun's first character, and the window is
\* text[match_start-40 : match_start+40]
confidence_for_pronoun(text, match_start) ==
    LET window == SubSeq(text, Max({1, match_start - 40}),
                         Min({Len(text), match_start + 39}))
        score == 55 + (IF has_anchor(text) THEN 25 ELSE 0)
                    + (IF Search(NEAR_INVOCATION_RE, TRUE, window) THEN 15 ELSE 0)
                    + (IF StartsWithDivineName(text) THEN 5 ELSE 0)
    IN  Min({FloatScore[score], 9500})

\* text[:start] + replacement + text[end:], the span being [start, end)
apply_single_span(text, start, end, replacement) ==
    SubSeq(text, 1, start - 1) \o replacement \o SubSeq(text, end, Len(text))

\* phrase.split()
RECURSIVE SplitWords(_)
SplitWords(s) ==
    IF s = <<>> THEN <<>>
    ELSE IF s[1] \in SpaceChars THEN SplitWords(Tail(s))
    ELSE LET n == Min({k \in 1..(Len(s) + 1) : k > Len(s) \/ s[k] \in SpaceChars}) - 1
         IN  <<SubSeq(s, 1, n)>> \o SplitWords(SubSeq(s, n + 1, Len(s)))

\* str.capitalize()
Capitalize(w) == IF w = <<>> THEN <<>> ELSE <<Upper(w[1])>> \o LowerStr(Tail(w))

cap_phrase(phrase) ==
    LET ws == SplitWords(phrase) IN Join([k \in DOMAIN ws |-> Capitalize(ws[k])])

Suggestion(ref, original, suggested, reason, confidence, kind) ==
    [ref |-> ref, original |-> original, suggested |-> suggested,
     reason |-> reason, confidence |-> confidence, kind |-> kind]

\* the while loop over the pronouns of a verse that has an anchor; the
\* pattern matches lower-case words only, so pron.islower() always holds
RECURSIVE PronounLoop(_, _, _)
PronounLoop(ref, original, working) ==
    LET m == FirstMatch(PRONOUN_RE, FALSE, working) IN
    IF ~m.ok THEN <<>>
    ELSE LET pron == m.caps[1]
             cap == <<Upper(pron[1])>> \o Tail(pron)
             suggested == apply_single_span(working, m.start, m.end, cap)
         IN  <<Suggestion(ref, original, suggested, <<"Divine pronoun", pron>>,
                          confidence_for_pronoun(working, m.start), "pronoun")>>
             \o PronounLoop(ref, original, suggested)

\* m.span(2) of a title match in text: the noun follows the possessive
\* (group 1) and the whitespace after it; lead is the length of the literal
\* before the possessive ("is", or nothing)
NounSpans(text, ms, lead) ==
    [k \in DOMAIN ms |->
        LET poss == IF lead = 0 THEN ms[k].start
                    ELSE ms[k].start + lead + RunLen(text, ms[k].start + lead, SpaceChars)
            q == poss + Len(ms[k].caps[1])
            start == q + RunLen(text, q, SpaceChars)
        IN  [start |-> start, end |-> ms[k].end,
             noun |-> SubSeq(text, start, ms[k].end - 1)]]

\* for m in list(regex.finditer(working)): the spans of the matches ms are
\* applied one after the other to the text as edited so far
RECURSIVE TitleLoop(_, _, _, _, _, _)
TitleLoop(ref, original, working, ms, reason, conf) ==
    IF ms = <<>> THEN [sugs |-> <<>>, working |-> working]
    ELSE LET m == Head(ms)
             noun_cap == cap_phrase(LowerStr(m.noun))
             suggested == apply_single_span(working, m.start, m.end, noun_cap)
             rest == TitleLoop(ref, original, suggested, Tail(ms), reason, conf)
         IN  [sugs |-> <<Suggestion(ref, original, suggested, reason, conf, "title")>>
                       \o rest.sugs,
              working |-> rest.working]

RECURSIVE SalvationLoop(_, _, _, _)
SalvationLoop(ref, original, working, ms) ==
    IF ms = <<>> THEN <<>>
    ELSE LET m == Head(ms)
             phrase == SubSeq(working, m.start, Min({m.end - 1, Len(working)}))
             phrase2 == Sub(<<B, Lit(<<"s","a","l","v","a","t","i","o","n">>), B>>, TRUE, <<T(<<"S","a","l","v","a","t","i","o","n">>)>>, phrase)
             suggested == apply_single_span(working, m.start, m.end, phrase2)
         IN  <<Suggestion(ref, original, suggested, "Salvation used as a title", 8500, "title")>>
             \o SalvationLoop(ref, original, suggested, Tail(ms))

\* the suggestions whose (ref, suggested) was not seen before, in order
RECURSIVE Uniq(_, _)
Uniq(sugs, seen) ==
    IF sugs = <<>> THEN <<>>
    ELSE LET s == Head(sugs)
             key == <<s.ref, s.suggested>>
         IN  IF key \in seen THEN Uniq(Tail(sugs), seen)
             ELSE <<s>> \o Uniq(Tail(sugs), seen \cup {key})

suggest_line(ref, text) ==
    LET pronouns == IF has_anchor(text) THEN PronounLoop(ref, text, text) ELSE <<>>
        identity == TitleLoop(ref, text, text,
                              NounSpans(text, FindAll(IS_TITLE_RE, TRUE, text), 2),
                              "Divine title used as identity", 9200)
        possessive == TitleLoop(ref, text, identity.working,
                                NounSpans(identity.working,
                                          FindAll(POSSESSIVE_TITLE_RE, TRUE, identity.working), 0),
                                "Divine title used as possessive title", 8800)
        salvation == SalvationLoop(ref, text, possessive.working,
                                   FindAll(SALVATION_TITLE_RE, TRUE, possessive.working))
    IN  Uniq(pronouns \o identity.sugs \o possessive.sugs \o salvation, {})

\* the order of Python's str comparison on the characters the refs use
CharOrder == <<" ", "0", "1", "2", "3", "4", "5", "6", "7", "8", "9", ":">>
             \o UpperLetters \o LowerLetters

Ord(c) == CHOOSE k \in DOMAIN CharOrder : CharOrder[k] = c

RECURSIVE StrLess(_, _)
StrLess(a, b) ==
    IF b = <<>> THEN FALSE
    ELSE IF a = <<>> THEN TRUE
    ELSE IF a[1] = b[1] THEN StrLess(Tail(a), Tail(b))
    ELSE Ord(a[1]) < Ord(b[1])

\* the key (x.ref, -x.confidence) of a is less than that of b
KeyLess(a, b) ==
    \/ StrLess(a.ref, b.ref)
    \/ a.ref = b.ref /\ a.confidence > b.confidence

\* sorted(all_sugs, key=...): a stable sort
RECURSIVE SortSugs(_)
SortSugs(sugs) ==
    IF sugs = <<>> THEN <<>>
    ELSE LET x == sugs[Len(sugs)]
             front == SortSugs(SubSeq(sugs, 1, Len(sugs) - 1))
             n == Cardinality({k \in DOMAIN front : ~KeyLess(x, front[k])})
         IN  SubSeq(front, 1, n) \o <<x>> \o SubSeq(front, n + 1, Len(front))

\* the worksheet row written for a suggestion: the decision column is empty
\* and the confidence is formatted with two decimals (here: hundredths)
WorksheetRow(s) ==
    [decision |-> <<>>, ref |-> s.ref, confidence |-> (s.confidence + 50) \div 100,
     kind |-> s.kind,
     reason |-> s.reason, original |-> s.original, suggested |-> s.suggested]


\* ------------------------------------------------------------------------
\* kjv_pronouns.main: the run over the lines of --book_in
\* ------------------------------------------------------------------------

VARIABLES
    kjv_map,        \* ref -> KJV text, as loaded by load_jsonl_map
    mixed_policy,   \* args.mixed_policy
    book_in,        \* the non-blank lines of --book_in read so far
    book_out,       \* the records written to --book_out
    review,         \* the list review
    review_out,     \* the records written to --review_out
    total, changed, missing_kjv,
    divine_only, human_only, mixed, none, mixed_changed,
    pc,             \* "idle"; "loop": reading lines; "done": complete; "error": raised
    rule_text,      \* the text a rule is applied to
    rule_original,  \* the original text, for a rule that compares two texts
    rule_fn,        \* the rule applied, "none" before
    rule_out,       \* the results of the successive applications
    rule_raised     \* apply_enforcement raised ValueError

VARIABLES
    enforce, enforce_only, heritage_kjv, kjv_case,   \* the flags of polish.py
    targets,        \* the refs of --targets
    polish_kjv_map, \* polish.main's kjv_map: ref -> KJV text
    anchors,        \* ref -> heritage phrase locks
    rows,           \* the rows of --in the loop has taken so far
    responses,      \* per row: the model call made for it and its output_text
    polish_out,     \* the records written to --out
    polish_changed, blocked, lock_misses, missing_kjv_for_targets,
    warnings,       \* the "Guard blocked" warnings printed, with their row
    polish_pc       \* "idle"; "loop"; "done": complete; "error": raised

polish_vars == <<enforce, enforce_only, heritage_kjv, kjv_case, targets,
                 polish_kjv_map, anchors, rows, responses, polish_out,
                 polish_changed, blocked, lock_misses, missing_kjv_for_targets,
                 warnings, polish_pc>>


\* no polish run
PolishIdle ==
    /\ enforce = FALSE /\ enforce_only = FALSE
    /\ heritage_kjv = FALSE /\ kjv_case = FALSE
    /\ targets = {} /\ polish_kjv_map = <<>> /\ anchors = <<>>
    /\ rows = <<>> /\ responses = <<>> /\ polish_out = <<>>
    /\ polish_changed = 0 /\ blocked = 0 /\ lock_misses = 0
    /\ missing_kjv_for_targets = 0
    /\ warnings = <<>>
    /\ polish_pc = "idle"

\* suggest_caps.main, the reviewer's marking, and apply_caps.main
VARIABLES
    sug_in,         \* the lines suggest_caps.main has read
    all_sugs,       \* the suggestions collected so far
    worksheet,      \* the rows suggest_caps.main wrote
    review_csv,     \* the rows of the approval artifact given to apply_caps
    approved,       \* ref -> approved text, as returned by read_approved
    caps_in,        \* the records apply has read
    caps_out,       \* the records apply has written
    caps_total, caps_changed,
    caps_pc         \* "idle", "suggest", "review", "read", "apply", "done", "error"

caps_vars == <<sug_in, all_sugs, worksheet, review_csv, approved, caps_in, caps_out,
               caps_total, caps_changed, caps_pc>>

\* neither script is running
CapsIdle ==
    /\ sug_in = <<>> /\ all_sugs = <<>> /\ worksheet = <<>> /\ review_csv = <<>>
    /\ approved = <<>> /\ caps_in = <<>> /\ caps_out = <<>>
    /\ caps_total = 0 /\ caps_changed = 0
    /\ caps_pc = "idle"

\* translate.main: runs of the translator over the rows of --in
VARIABLES
    tr_rows,        \* rows, as returned by load_input_jsonl
    tr_out,         \* the records of the --out file
    tr_before,      \* the records --out held when the current run opened it
    tr_resume,      \* args.resume of the current run
    lock_mode,      \* args.lock_mode
    already_done,   \* the set already_done
    tr_next,        \* index of the row the loop takes next
    tr_calls,       \* the refs the current run sent to the model
    tr_total, tr_written, normalized_count, strict_failures,
    tr_run,         \* number of the current run
    tr_pc           \* "idle"; "loop"; "done": complete; "error": raised

tr_vars == <<tr_rows, tr_out, tr_before, tr_resume, lock_mode, already_done, tr_next,
             tr_calls, tr_total, tr_written, normalized_count, strict_failures,
             tr_run, tr_pc>>

\* the translator is not running
TrIdle ==
    /\ tr_rows = <<>> /\ tr_out = <<>> /\ tr_before = <<>>
    /\ tr_resume = FALSE /\ lock_mode = "soft" /\ already_done = {}
    /\ tr_next = 1 /\ tr_calls = <<>>
    /\ tr_total = 0 /\ tr_written = 0 /\ normalized_count = 0 /\ strict_failures = 0
    /\ tr_run = 0
    /\ tr_pc = "idle"

kjv_vars == <<kjv_map, mixed_policy, book_in, book_out, review, review_out,
              total, changed, missing_kjv,
              divine_only, human_only, mixed, none, mixed_changed, pc>>

\* number of lines of --book_in a run reads at most
MaxLines == 2

\* the refs of the candidate book
Refs == {"GEN 1:1", "GEN 1:2", "GEN 1:3", "GEN 1:4", "GEN 1:5", "GEN 1:6"}

\* the reference corpus: one ref of each usage, one whose kjv is the empty
\* string, and GEN 1:6 without a record
KjvCorpus == ("GEN 1:1" :> Join(<<w_the, w_His>>))
          @@ ("GEN 1:2" :> Join(<<w_he, w_said>>))
          @@ ("GEN 1:3" :> Join(<<w_He, w_said, w_him>>))
          @@ ("GEN 1:4" :> Join(<<w_the, w_light>>))
          @@ ("GEN 1:5" :> <<>>)

\* the candidate verse texts of --book_in
VerseTexts == {<<"h","e"," ","h","i","m"," ","h","i","s"," ","h","i","m","s","e","l","f">>,
               <<"H","e"," ","H","i","m"," ","H","i","s"," ","H","i","m","s","e","l","f"," ","t","h","e"," ","s","h","e">>,
               <<"h","e"," ","s","a","i","d"," ","H","i","s">>,
               <<"G","o","d"," ","s","a","i","d"," ","t","o"," ","h","i","m">>}

\* a line of --book_in that has no "translation" key
NoTranslation == <<"absent">>

\* the lines of --book_in that have a ref: every ref with every text, and a
\* line without its translation
CandidateLines ==
    {[ref |-> r, translation |-> t] : r \in Refs, t \in VerseTexts}
    \cup {[ref |-> "GEN 1:1", translation |-> NoTranslation]}

\* obj.get("translation", "")
GetTranslation(field) == IF field = NoTranslation THEN <<>> ELSE field

MixedPolicies == {"skip", "cap_only", "normalize_anyway"}

\* kjv_map.get(ref) is None or the empty string
NoKjvText(ref) == IF ref \in DOMAIN kjv_map THEN kjv_map[ref] = <<>> ELSE TRUE

\* new_text_of with the skip policy capitalizing like cap_only
new_text_of_noskip(cls, policy, text) ==
    IF cls = "divine_only" THEN force_cap(text)
    ELSE IF cls = "human_only" THEN force_decap(text)
    ELSE IF cls = "mixed" THEN
        IF policy = "normalize_anyway" THEN force_decap(force_cap(text))
        ELSE force_cap(text)
    ELSE text

\* the text written for a classified verse
new_text_of(cls, policy, text) ==
    IF cls = "divine_only" THEN force_cap(text)
    ELSE IF cls = "human_only" THEN force_decap(text)
    ELSE IF cls = "mixed" THEN
        IF policy = "skip" THEN text
        ELSE IF policy = "cap_only" THEN force_cap(text)
        ELSE force_decap(force_cap(text))
    ELSE text

\* review_items_of reviewing a mixed verse only when it is skipped
review_items_of_skip_only(cls, policy, ref) ==
    IF cls = "mixed" /\ policy = "skip"
    THEN <<[ref |-> ref, reason |-> "mixed_pronouns_in_kjv"]>>
    ELSE <<>>

\* the review items appended for a classified verse
review_items_of(cls, policy, ref) ==
    IF cls = "mixed" THEN
        IF policy = "skip"
        THEN <<[ref |-> ref, reason |-> "mixed_pronouns_in_kjv"]>>
        ELSE IF policy = "cap_only"
        THEN <<[ref |-> ref, reason |-> "mixed_pronouns_in_kjv_cap_only"]>>
        ELSE <<[ref |-> ref, reason |-> "mixed_pronouns_in_kjv_normalize_anyway"]>>
    ELSE <<>>

Bump(b) == IF b THEN 1 ELSE 0

rule_vars == <<rule_text, rule_original, rule_fn, rule_out, rule_raised>>

vars == <<kjv_vars, rule_vars, polish_vars, caps_vars, tr_vars>>

\* no rule is being applied
RuleIdle ==
    /\ rule_text = <<>> /\ rule_original = <<>>
    /\ rule_fn = "none" /\ rule_out = <<>> /\ rule_raised = FALSE

KjvInit ==
    /\ RuleIdle /\ PolishIdle /\ CapsIdle /\ TrIdle
    /\ kjv_map = KjvCorpus
    /\ mixed_policy \in MixedPolicies
    /\ book_in = <<>>
    /\ book_out = <<>>
    /\ review = <<>>
    /\ review_out = <<>>
    /\ total = 0 /\ changed = 0 /\ missing_kjv = 0
    /\ divine_only = 0 /\ human_only = 0 /\ mixed = 0 /\ none = 0
    /\ mixed_changed = 0
    /\ pc = "loop"

\* a line whose ref is missing or blank: ValueError, after total was counted
LineMissingRef(field) ==
    \E text \in {GetTranslation(field)} :
        /\ UNCHANGED <<rule_vars, polish_vars, caps_vars, tr_vars>>
        /\ pc = "loop" /\ Len(book_in) < MaxLines
        /\ book_in' = Append(book_in, [ref |-> "", translation |-> text,
                                           given |-> field # NoTranslation])
        /\ total' = total + 1
        /\ pc' = "error"
        /\ UNCHANGED <<kjv_map, mixed_policy, book_out, review, review_out, changed,
                       missing_kjv, divine_only, human_only, mixed, none, mixed_changed>>

\* LineMissingKjv writing the heuristically capitalized text
LineMissingKjv_resolved(ref, field) ==
    \E text \in {GetTranslation(field)} :
        /\ UNCHANGED <<rule_vars, polish_vars, caps_vars, tr_vars>>
        /\ pc = "loop" /\ Len(book_in) < MaxLines
        /\ NoKjvText(ref)
        /\ book_in' = Append(book_in, [ref |-> ref, translation |-> text,
                                           given |-> field # NoTranslation])
        /\ total' = total + 1
        /\ missing_kjv' = missing_kjv + 1
        /\ review' = Append(review, [ref |-> ref, reason |-> "missing_kjv_ref"])
        /\ book_out' = Append(book_out,
              [ref |-> ref, translation |-> enforce_reverential_pronouns_minimal(text)])
        /\ UNCHANGED <<kjv_map, mixed_policy, review_out, changed,
                       divine_only, human_only, mixed, none, mixed_changed, pc>>

\* LineMissingKjv reviewing the verse without writing it
LineMissingKjv_dropped(ref, field) ==
    \E text \in {GetTranslation(field)} :
        /\ UNCHANGED <<rule_vars, polish_vars, caps_vars, tr_vars>>
        /\ pc = "loop" /\ Len(book_in) < MaxLines
        /\ NoKjvText(ref)
        /\ book_in' = Append(book_in, [ref |-> ref, translation |-> text,
                                           given |-> field # NoTranslation])
        /\ total' = total + 1
        /\ missing_kjv' = missing_kjv + 1
        /\ review' = Append(review, [ref |-> ref, reason |-> "missing_kjv_ref"])
        /\ UNCHANGED <<kjv_map, mixed_policy, book_out, review_out, changed,
                       divine_only, human_only, mixed, none, mixed_changed, pc>>

\* a line whose ref has no KJV text: reviewed and copied
LineMissingKjv(ref, field) ==
    \E text \in {GetTranslation(field)} :
        /\ UNCHANGED <<rule_vars, polish_vars, caps_vars, tr_vars>>
        /\ pc = "loop" /\ Len(book_in) < MaxLines
        /\ NoKjvText(ref)
        /\ book_in' = Append(book_in, [ref |-> ref, translation |-> text,
                                           given |-> field # NoTranslation])
        /\ total' = total + 1
        /\ missing_kjv' = missing_kjv + 1
        /\ review' = Append(review, [ref |-> ref, reason |-> "missing_kjv_ref"])
        /\ book_out' = Append(book_out, [ref |-> ref, translation |-> text])
        /\ UNCHANGED <<kjv_map, mixed_policy, review_out, changed,
                       divine_only, human_only, mixed, none, mixed_changed, pc>>

\* LineClassified keeping new_text of the line before for a verse of class none
LineClassified_stale(ref, field) ==
    \E text \in {GetTranslation(field)} :
        /\ UNCHANGED <<rule_vars, polish_vars, caps_vars, tr_vars>>
        /\ pc = "loop" /\ Len(book_in) < MaxLines
        /\ ~NoKjvText(ref)
        /\ LET cls == classify_kjv(kjv_map[ref])
               new_text == IF cls = "none" /\ book_out # <<>>
                           THEN book_out[Len(book_out)].translation
                           ELSE new_text_of(cls, mixed_policy, text)
           IN  /\ book_in' = Append(book_in, [ref |-> ref, translation |-> text,
                                           given |-> field # NoTranslation])
               /\ total' = total + 1
               /\ divine_only' = divine_only + Bump(cls = "divine_only")
               /\ human_only' = human_only + Bump(cls = "human_only")
               /\ mixed' = mixed + Bump(cls = "mixed")
               /\ none' = none + Bump(cls \notin {"divine_only", "human_only", "mixed"})
               /\ mixed_changed' = mixed_changed
                     + Bump(cls = "mixed" /\ mixed_policy # "skip" /\ new_text # text)
               /\ review' = review \o review_items_of(cls, mixed_policy, ref)
               /\ changed' = changed + Bump(new_text # text)
               /\ book_out' = Append(book_out, [ref |-> ref, translation |-> new_text])
        /\ UNCHANGED <<kjv_map, mixed_policy, review_out, missing_kjv, pc>>

\* a line whose ref has KJV text: classified and normalized
LineClassified(ref, field) ==
    \E text \in {GetTranslation(field)} :
        /\ UNCHANGED <<rule_vars, polish_vars, caps_vars, tr_vars>>
        /\ pc = "loop" /\ Len(book_in) < MaxLines
        /\ ~NoKjvText(ref)
        /\ LET cls == classify_kjv(kjv_map[ref])
               new_text == new_text_of(cls, mixed_policy, text)
           IN  /\ book_in' = Append(book_in, [ref |-> ref, translation |-> text,
                                           given |-> field # NoTranslation])
               /\ total' = total + 1
               /\ divine_only' = divine_only + Bump(cls = "divine_only")
               /\ human_only' = human_only + Bump(cls = "human_only")
               /\ mixed' = mixed + Bump(cls = "mixed")
               /\ none' = none + Bump(cls \notin {"divine_only", "human_only", "mixed"})
               /\ mixed_changed' = mixed_changed
                     + Bump(cls = "mixed" /\ mixed_policy # "skip" /\ new_text # text)
               /\ review' = review \o review_items_of(cls, mixed_policy, ref)
               /\ changed' = changed + Bump(new_text # text)
               /\ book_out' = Append(book_out, [ref |-> ref, translation |-> new_text])
        /\ UNCHANGED <<kjv_map, mixed_policy, review_out, missing_kjv, pc>>

\* end of --book_in: the statistics and the review manifest are written
Finish ==
    /\ UNCHANGED <<rule_vars, polish_vars, caps_vars, tr_vars>>
    /\ pc = "loop"
    /\ review_out' = review
    /\ pc' = "done"
    /\ UNCHANGED <<kjv_map, mixed_policy, book_in, book_out, review,
                   total, changed, missing_kjv,
                   divine_only, human_only, mixed, none, mixed_changed>>

KjvNext ==
    \/ \E field \in VerseTexts : LineMissingRef(field)
    \/ \E line \in CandidateLines : LineMissingKjv(line.ref, line.translation)
    \/ \E line \in CandidateLines : LineClassified(line.ref, line.translation)
    \/ Finish

Spec == KjvInit /\ [][KjvNext]_vars

\* the loop over the lines of --book_in always takes its next step: the run
\* is one thread that reads a finite file
SpecLive == KjvInit /\ [][KjvNext]_vars /\ WF_vars(KjvNext)

\* ------------------------------------------------------------------------
\* The pure functions, applied to texts drawn from bounded sets
\* ------------------------------------------------------------------------

\* number of vocabulary items of a text a rule is applied to
MaxWords == 2

\* how many times in a row a rule is applied to its own result
MaxPasses == 2

LowVocab == {w_he, w_him, w_his, w_himself, w_He, w_the, <<"G","o","d"," ","s","a","i","d"," ","t","o"," ","M","o","s","e","s">>, w_Moses}

CapVocab == {w_He, w_Him, w_His, w_Himself, w_he, w_she, <<"H","e"," ","i","s"," ","G","o","d">>}

LordVocab == {<<"t","h","e"," ","L","o","r","d">>, w_GOD, w_God, <<"a","n","g","e","l"," ","o","f"," ","t","h","e"," ","L","o","r","d">>, <<"A","n","d"," ","t","h","e"," ","L","o","r","d"," ","s","a","i","d">>, w_said,
              <<"a","n","g","e","l"," ","o","f"," ","t","h","e"," ","L","o","r","d","s">>, <<"a","n","g","e","l"," ","o","f"," ","t","h","e"," ","L","O","R","D">>}

CalqueVocab == {<<"t","o"," ","d","i","v","i","d","e">>, <<"b","e","t","w","e","e","n">>, <<"s","e","p","a","r","a","t","e","d"," ","b","e","t","w","e","e","n">>, <<"a","n","d"," ","b","e","t","w","e","e","n">>, <<"A">>, <<"t","h","e"," ","B">>,
                <<"D","i","v","i","d","i","n","g"," ","b","e","t","w","e","e","n">>, <<"a","n","d">>}

NumberVocab == {<<"s","i","x","t","y">>, <<"t","w","e","n","t","y">>, <<"a","n","d">>, <<"f","i","v","e">>, <<"o","n","e">>, <<"N","i","n","e","t","y"," ","a","n","d">>, <<"s","i","x","t","y"," ","a","n","d">>}

SpaceVocab == {<<" ">>, <<"\n">>, <<"a">>, <<"\r","\n">>, <<"a"," "," ","b">>}

\* the phrases X and Y of a "between X and between Y" construction
PhraseVocab == {<<"t","h","e"," ","l","i","g","h","t">>, <<"d","a","r","k","n","e","s","s">>, <<"d","a","y"," ","a","n","d"," ","n","i","g","h","t">>, <<"A"," ","a","n","d"," ","b","e","t","w","e","e","n"," ","B">>}

Phrases == PhraseVocab

\* "to divide between X and between Y" and "separated between X and between Y"
DivideBetween(X, Y) == Join(<<<<"t","o"," ","d","i","v","i","d","e"," ","b","e","t","w","e","e","n">>, X, <<"a","n","d"," ","b","e","t","w","e","e","n">>, Y>>)

SeparatedBetween(X, Y) == Join(<<<<"s","e","p","a","r","a","t","e","d"," ","b","e","t","w","e","e","n">>, X, <<"a","n","d"," ","b","e","t","w","e","e","n">>, Y>>)

CalqueTexts ==
    {DivideBetween(X, Y) : X \in Phrases, Y \in Phrases}
    \cup {SeparatedBetween(X, Y) : X \in Phrases, Y \in Phrases}

\* the text of n characters c
Rep(c, n) == [i \in 1..n |-> c]

\* originals around the length from which the guard compares lengths, one of
\* them of length 20 only after whitespace normalization
GuardOriginals ==
    {Rep("a", n) : n \in {19, 20, 25}}
    \cup {Rep("a", 10) \o <<" ", " ">> \o Rep("a", 9) \o <<"\n">>}

\* candidates around 60% and 160% of those lengths, and candidates the guard
\* rejects for their beginning
GuardCandidates ==
    {Rep("b", n) : n \in {1, 11, 12, 13, 14, 15, 16, 32, 33, 40, 41}}
    \cup {<<" ">> \o Rep("b", 5) \o <<" ", " ">> \o Rep("b", 6)}
    \cup {<<>>, <<"#"," ","b","b","b","b","b","b","b","b","b","b","b","b","b","b","b">>, <<"N","o","t","e",":"," ","b","b","b","b","b","b","b","b","b","b","b","b">>, <<"7"," ","b","b","b","b","b","b","b","b","b","b","b","b","b","b">>}

\* words of the verses suggest_line is applied to: the pronouns of PRONOUN_RE,
\* alone and next to an anchor, a capitalized pronoun, and a word that begins
\* with a pronoun
PronounVocab == {<<"y","o","u">>, <<"y","o","u","r","s">>, <<"h","i","m","s","e","l","f">>, <<"O"," ","L","O","R","D"," ","y","o","u","r">>, <<"h","i","s"," ","G","o","d">>, <<"Y","o","u">>, <<"h","e","r","o"," ","h","e">>}

RuleTexts ==
    TextsOf(LowVocab, MaxWords) \cup TextsOf(CapVocab, MaxWords)
    \cup TextsOf(LordVocab, MaxWords) \cup TextsOf(CalqueVocab, MaxWords)
    \cup TextsOf(NumberVocab, MaxWords) \cup TextsOf(SpaceVocab, MaxWords)
    \cup CalqueTexts \cup TextsOf(PronounVocab, MaxWords)

KjvIdle ==
    /\ kjv_map = KjvCorpus /\ mixed_policy = "skip"
    /\ book_in = <<>> /\ book_out = <<>> /\ review = <<>> /\ review_out = <<>>
    /\ total = 0 /\ changed = 0 /\ missing_kjv = 0
    /\ divine_only = 0 /\ human_only = 0 /\ mixed = 0 /\ none = 0
    /\ mixed_changed = 0
    /\ pc = "idle"

RulesInit ==
    /\ KjvIdle /\ PolishIdle /\ CapsIdle /\ TrIdle
    /\ \/ rule_text \in RuleTexts /\ rule_original = <<>>
       \/ rule_text \in GuardCandidates /\ rule_original \in GuardOriginals
    /\ rule_fn = "none"
    /\ rule_out = <<>>
    /\ rule_raised = FALSE

\* the text the next application works on
RuleCur == IF rule_out = <<>> THEN rule_text ELSE rule_out[Len(rule_out)]

\* one application of the rule fn, with result out
RuleStep(fn, out) ==
    /\ rule_fn \in {"none", fn}
    /\ ~rule_raised
    /\ Len(rule_out) < MaxPasses
    /\ rule_fn' = fn
    /\ rule_out' = Append(rule_out, out)
    /\ UNCHANGED <<rule_text, rule_original, rule_raised, kjv_vars, polish_vars, caps_vars, tr_vars>>

Call_classify_kjv ==
    /\ rule_fn = "none"
    /\ rule_fn' = "classify_kjv"
    /\ rule_out' = <<classify_kjv(rule_text)>>
    /\ UNCHANGED <<rule_text, rule_original, rule_raised, kjv_vars, polish_vars, caps_vars, tr_vars>>

Call_force_cap == RuleStep("force_cap", force_cap(RuleCur))

Call_force_decap == RuleStep("force_decap", force_decap(RuleCur))

Call_strip_internal_linebreaks ==
    RuleStep("strip_internal_linebreaks", strip_internal_linebreaks(RuleCur))

Call_enforce_lord_caps == RuleStep("enforce_lord_caps", enforce_lord_caps(RuleCur))

Call_enforce_between_from == RuleStep("enforce_between_from", enforce_between_from(RuleCur))

Call_enforce_compound_numbers ==
    RuleStep("enforce_compound_numbers", enforce_compound_numbers(RuleCur))

Call_enforce_reverential_pronouns_minimal ==
    RuleStep("enforce_reverential_pronouns_minimal",
             enforce_reverential_pronouns_minimal(RuleCur))

Call_apply_enforcement ==
    /\ rule_fn \in {"none", "apply_enforcement"}
    /\ ~rule_raised
    /\ Len(rule_out) < MaxPasses
    /\ rule_fn' = "apply_enforcement"
    /\ \E r \in {apply_enforcement(RuleCur)} :
           IF r.ok THEN rule_out' = Append(rule_out, r.text) /\ rule_raised' = FALSE
           ELSE rule_out' = rule_out /\ rule_raised' = TRUE
    /\ UNCHANGED <<rule_text, rule_original, kjv_vars, polish_vars, caps_vars, tr_vars>>

\* suggest_line(ref, text) for the verse PSA 1:1
Call_suggest_line ==
    /\ rule_fn = "none"
    /\ rule_fn' = "suggest_line"
    /\ rule_out' = <<suggest_line(<<"P","S","A"," ","1",":","1">>, rule_text)>>
    /\ UNCHANGED <<rule_text, rule_original, rule_raised, kjv_vars, polish_vars, caps_vars, tr_vars>>

Call_similarity_guard ==
    /\ rule_fn = "none"
    /\ rule_fn' = "similarity_guard"
    /\ rule_out' = <<similarity_guard(rule_original, rule_text)>>
    /\ UNCHANGED <<rule_text, rule_original, rule_raised, kjv_vars, polish_vars, caps_vars, tr_vars>>

RulesNext ==
    \/ Call_classify_kjv
    \/ Call_force_cap
    \/ Call_force_decap
    \/ Call_strip_internal_linebreaks
    \/ Call_enforce_lord_caps
    \/ Call_enforce_between_from
    \/ Call_enforce_compound_numbers
    \/ Call_enforce_reverential_pronouns_minimal
    \/ Call_apply_enforcement
    \/ Call_similarity_guard
    \/ Call_suggest_line

SpecRules == RulesInit /\ [][RulesNext]_vars

\* ------------------------------------------------------------------------
\* polish.main: the polish pass over the rows of --in
\* ------------------------------------------------------------------------

\* number of rows of --in a run takes at most
MaxRows == 2

PolishRefs == {"PSA 23:1", "PSA 23:3", "PSA 23:4", "PSA 23:5", "JDG 13:3"}

\* the candidate book: the translation of each ref
Book == ("PSA 23:1" :> <<"T","h","e"," ","L","o","r","d"," ","i","s"," ","m","y"," ","s","h","e","p","h","e","r","d",";"," ","I"," ","s","h","a","l","l"," ","n","o","t"," ","l","a","c","k",".">>)
     @@ ("PSA 23:3" :> <<"G","o","d"," ","r","e","s","t","o","r","e","s"," ","m","y"," ","s","o","u","l",";","\n","h","e"," ","l","e","a","d","s"," ","m","e",".">>)
     @@ ("PSA 23:4" :> <<"i","n"," ","t","h","e"," ","v","a","l","l","e","y"," ","o","f"," ","d","e","e","p","e","s","t"," ","s","h","a","d","o","w">>)
     @@ ("PSA 23:5" :> <<"5"," ","G","o","d"," ","a","n","o","i","n","t","s"," ","h","i","s"," ","h","e","a","d","\n","w","i","t","h"," ","o","i","l",".">>)
     @@ ("JDG 13:3" :> <<"a","n","g","e","l"," ","o","f"," ","t","h","e"," ","L","o","r","d","s",","," ","a","n","g","e","l"," ","o","f"," ","t","h","e"," ","L","O","R","D">>)

PolishTargets == {"PSA 23:1", "PSA 23:3", "PSA 23:4"}

\* the reference corpus of --kjv_path: PSA 23:4 and JDG 13:3 have no record
PolishKjv == ("PSA 23:1" :> <<"T","h","e"," ","L","O","R","D"," ","i","s"," ","m","y"," ","s","h","e","p","h","e","r","d",";"," ","I"," ","s","h","a","l","l"," ","n","o","t"," ","w","a","n","t",".">>)
          @@ ("PSA 23:3" :> <<"H","e"," ","r","e","s","t","o","r","e","t","h"," ","m","y"," ","s","o","u","l",":"," ","h","e"," ","l","e","a","d","e","t","h"," ","m","e">>)
          @@ ("PSA 23:5" :> <<"t","h","o","u"," ","a","n","o","i","n","t","e","s","t"," ","m","y"," ","h","e","a","d"," ","w","i","t","h"," ","o","i","l">>)

\* the locks of --heritage_anchors
PolishAnchors == ("PSA 23:1" :> <<<<"I"," ","s","h","a","l","l"," ","n","o","t"," ","w","a","n","t">>>>)
              @@ ("PSA 23:4" :> <<<<"t","h","e"," ","v","a","l","l","e","y"," ","o","f"," ","t","h","e"," ","s","h","a","d","o","w"," ","o","f"," ","d","e","a","t","h">>>>)

\* the output_text the model may return for a target verse
ModelOutputs == ("PSA 23:1" :> {<<"T","h","e"," ","L","O","R","D"," ","i","s"," ","m","y"," ","s","h","e","p","h","e","r","d",";"," ","I"," ","s","h","a","l","l"," ","n","o","t"," ","l","a","c","k",".">>,
                                <<"T","h","e"," ","L","O","R","D"," ","i","s"," ","m","y"," ","s","h","e","p","h","e","r","d",";"," ","I"," ","h","a","v","e"," ","n","o"," ","l","a","c","k",".">>,
                                <<>>})
             @@ ("PSA 23:3" :> {<<" ","G","o","d"," ","r","e","s","t","o","r","e","s"," ","m","y"," ","s","o","u","l",";"," ","h","e"," ","l","e","a","d","s"," ","m","e",".","\n">>,
                                <<"H","e"," ","l","e","a","d","s"," ","m","e",".">>,
                                <<"a","n","g","e","l"," ","o","f"," ","t","h","e"," ","L","o","r","d","s",","," ","a","n","g","e","l"," ","o","f"," ","t","h","e"," ","L","O","R","D">>})
             @@ ("PSA 23:4" :> {<<"i","n"," ","t","h","e"," ","v","a","l","l","e","y"," ","o","f"," ","d","e","e","p","e","s","t"," ","s","h","a","d","o","w">>,
                                <<"i","n"," ","t","h","e"," ","d","a","r","k","e","s","t"," ","v","a","l","l","e","y">>,
                                <<"#"," ","P","s","a","l","m"," ","2","3">>})

\* the state when the loop over rows starts
PolishInit ==
    /\ KjvIdle /\ RuleIdle /\ CapsIdle /\ TrIdle
    /\ enforce \in BOOLEAN /\ enforce_only \in BOOLEAN
    /\ heritage_kjv \in BOOLEAN /\ kjv_case \in BOOLEAN
    /\ targets = PolishTargets
    /\ polish_kjv_map = IF heritage_kjv \/ kjv_case THEN PolishKjv ELSE <<>>
    /\ anchors = PolishAnchors
    /\ rows = <<>> /\ responses = <<>> /\ polish_out = <<>>
    /\ polish_changed = 0 /\ blocked = 0 /\ lock_misses = 0
    /\ missing_kjv_for_targets = 0
    /\ warnings = <<>>
    /\ polish_pc = "loop"

\* anchors.get(ref, [])
LocksOf(ref) == IF ref \in DOMAIN anchors THEN anchors[ref] ELSE <<>>

\* kjv_map.get(ref) if kjv_map else None; <<>> for None
KjvTextOf(ref) == IF ref \in DOMAIN polish_kjv_map THEN polish_kjv_map[ref] ELSE <<>>

\* in_targets and (args.heritage_kjv or args.kjv_case) and not kjv_text
MissingKjvForTarget(ref) ==
    ref \in targets /\ (heritage_kjv \/ kjv_case) /\ KjvTextOf(ref) = <<>>

\* "if args.enforce: revised = apply_enforcement(revised)"
EnforceIf(flag, text) ==
    IF flag THEN apply_enforcement(text) ELSE [ok |-> TRUE, text |-> text]

NotCalled == [called |-> FALSE, output_text |-> <<>>]

\* the frame of a row step: the arguments and the loaded files do not change
PolishFrame ==
    UNCHANGED <<kjv_vars, rule_vars, caps_vars, tr_vars, enforce, enforce_only, heritage_kjv, kjv_case,
                targets, polish_kjv_map, anchors>>

\* the row is taken, then an exception leaves main: nothing is written for it
RowRaises(ref, resp, lock_missed) ==
    /\ rows' = Append(rows, [ref |-> ref, translation |-> Book[ref]])
    /\ responses' = Append(responses, resp)
    /\ missing_kjv_for_targets' = missing_kjv_for_targets + Bump(MissingKjvForTarget(ref))
    /\ lock_misses' = lock_misses + Bump(lock_missed)
    /\ polish_pc' = "error"
    /\ UNCHANGED <<polish_out, polish_changed, blocked, warnings>>

\* RowModelled writing the rewritten text also when the guard rejects it
RowModelled_unguarded(ref, output_text) ==
    /\ polish_pc = "loop" /\ Len(rows) < MaxRows
    /\ ref \in targets /\ ~enforce_only
    /\ PolishFrame
    /\ \E original \in {strip_internal_linebreaks(Book[ref])} :
       \E e1 \in {EnforceIf(enforce, strip_internal_linebreaks(Strip(output_text)))} :
       \E lk \in {IF e1.ok /\ LocksOf(ref) # <<>>
                  THEN enforce_phrase_locks(e1.text, LocksOf(ref), KjvTextOf(ref))
                  ELSE [text |-> e1.text, missing |-> <<>>]} :
       \E e2 \in {IF e1.ok /\ LocksOf(ref) # <<>>
                  THEN EnforceIf(enforce, lk.text)
                  ELSE [ok |-> e1.ok, text |-> lk.text]} :
       \E revised \in {IF e2.ok /\ kjv_case /\ KjvTextOf(ref) # <<>>
                       THEN kjv_case_normalize_v2(e2.text, KjvTextOf(ref))
                       ELSE e2.text} :
       \E guard \in {similarity_guard(original, revised)} :
          IF ~e2.ok
          THEN RowRaises(ref, [called |-> TRUE, output_text |-> output_text],
                         lk.missing # <<>>)
          ELSE /\ rows' = Append(rows, [ref |-> ref, translation |-> Book[ref]])
               /\ responses' = Append(responses,
                                      [called |-> TRUE, output_text |-> output_text])
               /\ missing_kjv_for_targets' =
                     missing_kjv_for_targets + Bump(MissingKjvForTarget(ref))
               /\ lock_misses' = lock_misses + Bump(lk.missing # <<>>)
               /\ blocked' = blocked + Bump(~guard.ok)
               /\ warnings' = IF guard.ok THEN warnings
                              ELSE Append(warnings, [row |-> Len(rows) + 1, ref |-> ref,
                                                     reason |-> guard.reason])
               /\ polish_changed' = polish_changed
                     + Bump(guard.ok /\ normalize_space(revised) # normalize_space(original))
               /\ polish_out' = Append(polish_out,
                     [ref |-> ref,
                      translation |-> revised])
               /\ UNCHANGED polish_pc

\* a target row of a run that calls the model: the response is enforced,
\* locked, case-normalized and guarded, then written
RowModelled(ref, output_text) ==
    /\ polish_pc = "loop" /\ Len(rows) < MaxRows
    /\ ref \in targets /\ ~enforce_only
    /\ PolishFrame
    /\ \E original \in {strip_internal_linebreaks(Book[ref])} :
       \E e1 \in {EnforceIf(enforce, strip_internal_linebreaks(Strip(output_text)))} :
       \E lk \in {IF e1.ok /\ LocksOf(ref) # <<>>
                  THEN enforce_phrase_locks(e1.text, LocksOf(ref), KjvTextOf(ref))
                  ELSE [text |-> e1.text, missing |-> <<>>]} :
       \E e2 \in {IF e1.ok /\ LocksOf(ref) # <<>>
                  THEN EnforceIf(enforce, lk.text)
                  ELSE [ok |-> e1.ok, text |-> lk.text]} :
       \E revised \in {IF e2.ok /\ kjv_case /\ KjvTextOf(ref) # <<>>
                       THEN kjv_case_normalize_v2(e2.text, KjvTextOf(ref))
                       ELSE e2.text} :
       \E guard \in {similarity_guard(original, revised)} :
          IF ~e2.ok
          THEN RowRaises(ref, [called |-> TRUE, output_text |-> output_text],
                         lk.missing # <<>>)
          ELSE /\ rows' = Append(rows, [ref |-> ref, translation |-> Book[ref]])
               /\ responses' = Append(responses,
                                      [called |-> TRUE, output_text |-> output_text])
               /\ missing_kjv_for_targets' =
                     missing_kjv_for_targets + Bump(MissingKjvForTarget(ref))
               /\ lock_misses' = lock_misses + Bump(lk.missing # <<>>)
               /\ blocked' = blocked + Bump(~guard.ok)
               /\ warnings' = IF guard.ok THEN warnings
                              ELSE Append(warnings, [row |-> Len(rows) + 1, ref |-> ref,
                                                     reason |-> guard.reason])
               /\ polish_changed' = polish_changed
                     + Bump(guard.ok /\ normalize_space(revised) # normalize_space(original))
               /\ polish_out' = Append(polish_out,
                     [ref |-> ref,
                      translation |-> IF guard.ok THEN revised ELSE original])
               /\ UNCHANGED polish_pc

\* client.responses.create raises for a target row: the exception leaves main
ModelCallRaises(ref) ==
    /\ polish_pc = "loop" /\ Len(rows) < MaxRows
    /\ ref \in targets /\ ~enforce_only
    /\ PolishFrame
    /\ RowRaises(ref, NotCalled, FALSE)

\* RowNotModelled applying the enforcement only to a verse without KJV text
RowNotModelled_gated(ref) ==
    /\ polish_pc = "loop" /\ Len(rows) < MaxRows
    /\ IF ref \in targets THEN enforce_only ELSE TRUE
    /\ PolishFrame
    /\ \E original \in {strip_internal_linebreaks(Book[ref])} :
       \E e \in {EnforceIf(enforce_only /\ enforce /\ KjvTextOf(ref) = <<>>, original)} :
          IF ~e.ok THEN RowRaises(ref, NotCalled, FALSE)
          ELSE /\ rows' = Append(rows, [ref |-> ref, translation |-> Book[ref]])
               /\ responses' = Append(responses, NotCalled)
               /\ missing_kjv_for_targets' =
                     missing_kjv_for_targets + Bump(MissingKjvForTarget(ref))
               /\ polish_out' = Append(polish_out, [ref |-> ref, translation |-> e.text])
               /\ UNCHANGED <<polish_changed, blocked, lock_misses, warnings, polish_pc>>

\* RowNotModelled applying the rules under --enforce alone
RowNotModelled_everywhere(ref) ==
    /\ polish_pc = "loop" /\ Len(rows) < MaxRows
    /\ IF ref \in targets THEN enforce_only ELSE TRUE
    /\ PolishFrame
    /\ \E original \in {strip_internal_linebreaks(Book[ref])} :
       \E e \in {EnforceIf(enforce, original)} :
          IF ~e.ok THEN RowRaises(ref, NotCalled, FALSE)
          ELSE /\ rows' = Append(rows, [ref |-> ref, translation |-> Book[ref]])
               /\ responses' = Append(responses, NotCalled)
               /\ missing_kjv_for_targets' =
                     missing_kjv_for_targets + Bump(MissingKjvForTarget(ref))
               /\ polish_out' = Append(polish_out, [ref |-> ref, translation |-> e.text])
               /\ UNCHANGED <<polish_changed, blocked, lock_misses, warnings, polish_pc>>

\* a row that is not sent to the model: written after strip_internal_linebreaks,
\* and after apply_enforcement when --enforce_only and --enforce are both set
RowNotModelled(ref) ==
    /\ polish_pc = "loop" /\ Len(rows) < MaxRows
    /\ IF ref \in targets THEN enforce_only ELSE TRUE
    /\ PolishFrame
    /\ \E original \in {strip_internal_linebreaks(Book[ref])} :
       \E e \in {EnforceIf(enforce_only /\ enforce, original)} :
          IF ~e.ok THEN RowRaises(ref, NotCalled, FALSE)
          ELSE /\ rows' = Append(rows, [ref |-> ref, translation |-> Book[ref]])
               /\ responses' = Append(responses, NotCalled)
               /\ missing_kjv_for_targets' =
                     missing_kjv_for_targets + Bump(MissingKjvForTarget(ref))
               /\ polish_out' = Append(polish_out, [ref |-> ref, translation |-> e.text])
               /\ UNCHANGED <<polish_changed, blocked, lock_misses, warnings, polish_pc>>

\* the rows are exhausted: the totals are printed
PolishFinish ==
    /\ polish_pc = "loop"
    /\ polish_pc' = "done"
    /\ UNCHANGED <<kjv_vars, rule_vars, caps_vars, tr_vars, enforce, enforce_only, heritage_kjv, kjv_case,
                   targets, polish_kjv_map, anchors, rows, responses, polish_out,
                   polish_changed, blocked, lock_misses, missing_kjv_for_targets,
                   warnings>>

PolishNext ==
    \/ \E ref \in PolishTargets : \E output_text \in ModelOutputs[ref] :
          RowModelled(ref, output_text)
    \/ \E ref \in PolishTargets : ModelCallRaises(ref)
    \/ \E ref \in PolishRefs : RowNotModelled(ref)
    \/ PolishFinish

SpecPolish == PolishInit /\ [][PolishNext]_vars


\* ------------------------------------------------------------------------
\* scripts/suggest_caps.py and scripts/apply_caps.py: a worksheet is
\* suggested, a reviewer marks it, and the approved rows are applied
\* ------------------------------------------------------------------------

MaxCapsLines == 2

MaxMarked == 2

\* a JSON value that is not a string, and a CSV cell DictReader leaves None
JsonNull == <<"null">>

CsvNone == <<"None">>

\* v or ""
OrEmpty(v) == IF v \in {CsvNone, JsonNull} THEN <<>> ELSE v

\* the lines suggest_caps reads (a record without "ref" or "translation"
\* reads as one whose value is "", as obj.get does)
SuggestRecords ==
    { [ref |-> <<"P","S","A"," ","1","8",":","2">>, translation |-> <<"T","h","e"," ","L","O","R","D"," ","i","s"," ","m","y"," ","r","o","c","k",";"," ","h","e"," ","s","a","v","e","s"," ","h","i","s"," ","o","w","n">>],
      [ref |-> <<"P","S","A"," ","6","2",":","1">>, translation |-> <<"f","r","o","m"," ","h","i","m"," ","i","s"," ","m","y"," ","s","a","l","v","a","t","i","o","n">>],
      [ref |-> <<>>, translation |-> <<"G","o","d"," ","i","s"," ","o","u","r"," ","f","o","r","t","r","e","s","s">>] }

\* the lines apply reads: the candidate file, possibly rewritten since the
\* worksheet was made
ApplyRecords ==
    { [ref |-> <<"P","S","A"," ","6","2",":","1">>, translation |-> <<"f","r","o","m"," ","h","i","m"," ","i","s"," ","m","y"," ","s","a","l","v","a","t","i","o","n">>],
      [ref |-> <<"P","S","A"," ","1","8",":","2">>, translation |-> <<"M","y"," ","s","t","r","e","n","g","t","h">>],
      [ref |-> <<"P","S","A"," ","1","8",":","2">>, translation |-> JsonNull] }

\* the refs of the lines read so far
RefsOf(lines) == {lines[k].ref : k \in DOMAIN lines}

\* what a reviewer writes into the decision column
Decisions == {<<"A","P","P","R","O","V","E">>, <<" ","a","p","p","r","o","v","e">>, <<"R","E","J","E","C","T">>}

\* rows a reviewer adds by hand
HandRows ==
    { [decision |-> <<"A","P","P","R","O","V","E">>, ref |-> <<" ","P","S","A"," ","1","8",":","2"," ">>, confidence |-> 0, kind |-> "title",
       reason |-> "by hand", original |-> <<>>, suggested |-> <<"T","h","e"," ","L","O","R","D"," ","i","s"," ","m","y"," ","R","o","c","k">>],
      [decision |-> <<"A","P","P","R","O","V","E">>, ref |-> <<>>, confidence |-> 0, kind |-> "title",
       reason |-> "by hand", original |-> <<>>, suggested |-> <<"G","o","d"," ","i","s"," ","o","u","r"," ","F","o","r","t","r","e","s","s">>],
      [decision |-> <<"A","p","p","r","o","v","e">>, ref |-> <<"P","S","A"," ","6","2",":","1">>, confidence |-> 0, kind |-> "title",
       reason |-> "by hand", original |-> <<>>, suggested |-> CsvNone] }

CapsInit ==
    /\ KjvIdle /\ RuleIdle /\ PolishIdle /\ TrIdle
    /\ sug_in = <<>> /\ all_sugs = <<>> /\ worksheet = <<>> /\ review_csv = <<>>
    /\ approved = <<>> /\ caps_in = <<>> /\ caps_out = <<>>
    /\ caps_total = 0 /\ caps_changed = 0
    /\ caps_pc = "suggest"

CapsFrame == UNCHANGED <<kjv_vars, rule_vars, polish_vars, tr_vars>>

\* suggest_caps.main, one line of the input: a line without a ref or with a
\* translation that is not a string is skipped; a ref names one verse of the
\* file
SuggestLine(obj) ==
    /\ caps_pc = "suggest" /\ Len(sug_in) < MaxCapsLines
    /\ obj.ref \notin RefsOf(sug_in)
    /\ sug_in' = Append(sug_in, obj)
    /\ all_sugs' = IF obj.ref = <<>> \/ obj.translation = JsonNull THEN all_sugs
                   ELSE all_sugs \o suggest_line(obj.ref, obj.translation)
    /\ UNCHANGED <<worksheet, review_csv, approved, caps_in, caps_out, caps_total,
                   caps_changed, caps_pc>>
    /\ CapsFrame

\* suggest_caps.main, after the last line: the sorted suggestions are written
WriteWorksheet ==
    /\ caps_pc = "suggest"
    /\ \E sorted \in {SortSugs(all_sugs)} :
          /\ worksheet' = [k \in DOMAIN sorted |-> WorksheetRow(sorted[k])]
          /\ review_csv' = worksheet'
    /\ caps_pc' = "review"
    /\ UNCHANGED <<sug_in, all_sugs, approved, caps_in, caps_out, caps_total, caps_changed>>
    /\ CapsFrame

Marked == Cardinality({i \in DOMAIN review_csv : review_csv[i].decision # <<>>})

\* the reviewer fills in the decision of a row
Mark(i, d) ==
    /\ caps_pc = "review" /\ Marked < MaxMarked
    /\ review_csv[i].decision = <<>>
    /\ review_csv' = [review_csv EXCEPT ![i].decision = d]
    /\ UNCHANGED <<sug_in, all_sugs, worksheet, approved, caps_in, caps_out, caps_total,
                   caps_changed, caps_pc>>
    /\ CapsFrame

\* the reviewer adds a row
AddRow(row) ==
    /\ caps_pc = "review" /\ Marked < MaxMarked
    /\ review_csv' = Append(review_csv, row)
    /\ UNCHANGED <<sug_in, all_sugs, worksheet, approved, caps_in, caps_out, caps_total,
                   caps_changed, caps_pc>>
    /\ CapsFrame

\* the for loop of read_approved over the rows from position i on
RECURSIVE ReadRows(_, _, _)
ReadRows(rows_, i, acc) ==
    IF i > Len(rows_) THEN acc
    ELSE LET row == rows_[i]
             decision == UpperStr(Strip(OrEmpty(row.decision)))
             ref == Strip(OrEmpty(row.ref))
             suggested == OrEmpty(row.suggested)
         IN  IF decision # <<"A","P","P","R","O","V","E">> \/ ref = <<>> THEN ReadRows(rows_, i + 1, acc)
             ELSE ReadRows(rows_, i + 1,
                           [r \in DOMAIN acc \cup {ref} |->
                               IF r = ref THEN suggested ELSE acc[r]])

\* the empty dict: a function with no argument
EmptyMap == [r \in {} |-> <<>>]

\* read_approved keeping the first APPROVE row of each ref
read_approved_first(rows_) ==
    LET ok == {i \in DOMAIN rows_ :
                 /\ UpperStr(Strip(OrEmpty(rows_[i].decision))) = <<"A","P","P","R","O","V","E">>
                 /\ Strip(OrEmpty(rows_[i].ref)) # <<>>}
    IN  [r \in {Strip(OrEmpty(rows_[i].ref)) : i \in ok} |->
           OrEmpty(rows_[Min({i \in ok : Strip(OrEmpty(rows_[i].ref)) = r})].suggested)]

\* read_approved taking unmarked rows as approved
read_approved_unmarked(rows_) ==
    LET ok == {i \in DOMAIN rows_ :
                 /\ UpperStr(Strip(OrEmpty(rows_[i].decision))) \in {<<"A","P","P","R","O","V","E">>, <<>>}
                 /\ Strip(OrEmpty(rows_[i].ref)) # <<>>}
    IN  [r \in {Strip(OrEmpty(rows_[i].ref)) : i \in ok} |->
           OrEmpty(rows_[Max({i \in ok : Strip(OrEmpty(rows_[i].ref)) = r})].suggested)]

read_approved(rows_) == ReadRows(rows_, 1, EmptyMap)

\* apply_caps.main calls read_approved on the artifact
ReadApproved ==
    /\ caps_pc = "review"
    /\ approved' = read_approved(review_csv)
    /\ caps_pc' = "apply"
    /\ UNCHANGED <<sug_in, all_sugs, worksheet, review_csv, caps_in, caps_out, caps_total,
                   caps_changed>>
    /\ CapsFrame

\* read_approved raises ValueError: the artifact lacks a required column
ReadApprovedRaises ==
    /\ caps_pc = "review"
    /\ caps_pc' = "error"
    /\ UNCHANGED <<sug_in, all_sugs, worksheet, review_csv, approved, caps_in, caps_out,
                   caps_total, caps_changed>>
    /\ CapsFrame

\* ApplyLine writing only the records it changed
ApplyLine_changed_only(obj) ==
    /\ caps_pc = "apply" /\ Len(caps_in) < MaxCapsLines
    /\ caps_in' = Append(caps_in, obj)
    /\ caps_total' = caps_total + 1
    /\ IF obj.ref \in DOMAIN approved
       THEN IF obj.translation # JsonNull /\ obj.translation # approved[obj.ref]
            THEN /\ caps_out' = Append(caps_out, [obj EXCEPT !.translation = approved[obj.ref]])
                 /\ caps_changed' = caps_changed + 1
            ELSE /\ caps_out' = Append(caps_out, obj)
                 /\ UNCHANGED caps_changed
       ELSE /\ UNCHANGED caps_out
            /\ UNCHANGED caps_changed
    /\ UNCHANGED <<sug_in, all_sugs, worksheet, review_csv, approved, caps_pc>>
    /\ CapsFrame

\* apply, one line of the input
ApplyLine(obj) ==
    /\ caps_pc = "apply" /\ Len(caps_in) < MaxCapsLines
    /\ caps_in' = Append(caps_in, obj)
    /\ caps_total' = caps_total + 1
    /\ IF obj.ref \in DOMAIN approved
       THEN IF obj.translation # JsonNull /\ obj.translation # approved[obj.ref]
            THEN /\ caps_out' = Append(caps_out, [obj EXCEPT !.translation = approved[obj.ref]])
                 /\ caps_changed' = caps_changed + 1
            ELSE /\ caps_out' = Append(caps_out, obj)
                 /\ UNCHANGED caps_changed
       ELSE /\ caps_out' = Append(caps_out, obj)
            /\ UNCHANGED caps_changed
    /\ UNCHANGED <<sug_in, all_sugs, worksheet, review_csv, approved, caps_pc>>
    /\ CapsFrame

\* apply, after the last line
ApplyDone ==
    /\ caps_pc = "apply"
    /\ caps_pc' = "done"
    /\ UNCHANGED <<sug_in, all_sugs, worksheet, review_csv, approved, caps_in, caps_out,
                   caps_total, caps_changed>>
    /\ CapsFrame

CapsNext ==
    \/ \E obj \in SuggestRecords : SuggestLine(obj)
    \/ WriteWorksheet
    \/ \E i \in DOMAIN review_csv : \E d \in Decisions : Mark(i, d)
    \/ \E row \in HandRows : AddRow(row)
    \/ ReadApproved
    \/ ReadApprovedRaises
    \/ \E obj \in ApplyRecords : ApplyLine(obj)
    \/ ApplyDone

SpecCaps == CapsInit /\ [][CapsNext]_vars


\* ------------------------------------------------------------------------
\* scripts/translate.py: the translator, an aborted run and its --resume
\* ------------------------------------------------------------------------

\* re.sub(r"[\r\n]+", " ", s), re.sub(r"\s+", " ", s), strip()
translate_normalize_space(s) ==
    Strip(Sub(<<WS>>, FALSE, <<T(SP)>>, Sub(<<Plus({"\r", "\n"})>>, FALSE, <<T(SP)>>, s)))

MILD_ARCHAIC_REPLACEMENTS ==
    << <<<<"u","n","t","o">>, <<"t","o">>>>, <<<<"b","e","t","w","i","x","t">>, <<"b","e","t","w","e","e","n">>>>, <<<<"n","i","g","h">>, <<"n","e","a","r">>>>,
       <<<<"t","h","e","r","e","o","f">>, <<"o","f"," ","i","t">>>>, <<<<"t","h","e","r","e","i","n">>, <<"i","n"," ","i","t">>>>, <<<<"t","h","e","r","e","w","i","t","h">>, <<"w","i","t","h"," ","i","t">>>>,
       <<<<"w","h","e","n","c","e">>, <<"f","r","o","m"," ","w","h","e","r","e">>>>, <<<<"h","e","n","c","e","f","o","r","t","h">>, <<"f","r","o","m"," ","n","o","w"," ","o","n">>>> >>

\* the loop of dearchaicize from replacement k on
RECURSIVE MildLoop(_, _)
MildLoop(out, k) ==
    IF k > Len(MILD_ARCHAIC_REPLACEMENTS) THEN out
    ELSE MildLoop(Sub(<<B, Lit(MILD_ARCHAIC_REPLACEMENTS[k][1]), B>>, TRUE,
                      <<T(MILD_ARCHAIC_REPLACEMENTS[k][2])>>, out), k + 1)

\* the new text; the list of changed terms only feeds the warning
dearchaicize(text) ==
    CHOOSE r \in {IF out # text THEN translate_normalize_space(out) ELSE out :
                     out \in {MildLoop(text, 1)}} : TRUE

STRONG_ARCHAIC_TERMS ==
    <<<<"t","h","o","u">>, <<"t","h","e","e">>, <<"t","h","y">>, <<"t","h","i","n","e">>, <<"y","e">>, <<"h","a","t","h">>, <<"d","o","t","h">>, <<"a","r","t">>, <<"s","h","a","l","t">>, <<"w","i","l","t">>,
      <<"w","h","e","r","e","f","o","r","e">>>>

STRONG_ARCHAIC_RE == <<B, Alt(STRONG_ARCHAIC_TERMS), B>>

\* TRUE when find_strong_archaism returns a term, FALSE when it returns None
find_strong_archaism(text) == Search(STRONG_ARCHAIC_RE, TRUE, text)

DEFAULT_SOFT_LOCKS == (<<"G","E","N"," ","1",":","2">> :> <<<<"f","o","r","m","l","e","s","s"," ","a","n","d"," ","v","o","i","d">>>>)

\* TRUE when check_locks returns (with or without a warning), FALSE when it
\* raises ValueError
check_locks(ref, text, mode) ==
    IF ref \notin DOMAIN DEFAULT_SOFT_LOCKS THEN TRUE
    ELSE \A k \in DOMAIN DEFAULT_SOFT_LOCKS[ref] :
            IF Contains(LowerStr(text), LowerStr(DEFAULT_SOFT_LOCKS[ref][k]))
            THEN TRUE ELSE mode # "hard"

\* the refs of the records of --out, stripped; records with an empty ref
\* are passed over
load_existing_output_refs(file) ==
    {Strip(file[k].ref) : k \in {j \in DOMAIN file : Strip(file[j].ref) # <<>>}}

\* number of runs of the translator over the same --in and --out
MaxRuns == 2

LockModes == {"off", "soft", "hard"}

\* load_input_jsonl: str(obj["ref"]).strip() of each line
load_input_jsonl(lines) == [k \in DOMAIN lines |-> [ref |-> Strip(lines[k].ref),
                                                     source |-> lines[k].source]]

\* the --in files: three verses; a line whose ref is blank before a verse; a
\* ref with surrounding whitespace
TranslateInputs ==
    { << [ref |-> <<"G","E","N"," ","1",":","1">>, source |-> "a"], [ref |-> <<"G","E","N"," ","1",":","2">>, source |-> "b"],
         [ref |-> <<"G","E","N"," ","1",":","3">>, source |-> "c"] >>,
      << [ref |-> <<" ">>, source |-> "a"], [ref |-> <<"G","E","N"," ","1",":","2">>, source |-> "b"] >>,
      << [ref |-> <<" ","G","E","N"," ","1",":","3"," ">>, source |-> "c"], [ref |-> <<"G","E","N"," ","1",":","1">>, source |-> "a"] >> }

\* resp.output_text of a model call
ModelTexts == {<<" ","t","h","e"," ","e","a","r","t","h"," ","w","a","s"," ","f","o","r","m","l","e","s","s","\n","a","n","d"," ","v","o","i","d"," ">>, <<"h","e"," ","s","a","i","d"," ","u","n","t","o"," ","h","i","m">>, <<"t","h","o","u"," ","a","r","t">>}

\* the start of a run: the arguments are parsed, rows loaded, already_done
\* read from --out under --resume, and --out opened ("a" under --resume when
\* the file exists, "w" otherwise)
TranslateInit ==
    /\ KjvIdle /\ RuleIdle /\ PolishIdle /\ CapsIdle
    /\ \E lines \in TranslateInputs : tr_rows = load_input_jsonl(lines)
    /\ tr_resume \in BOOLEAN
    /\ lock_mode \in LockModes
    /\ tr_out = <<>> /\ tr_before = <<>> /\ already_done = {}
    /\ tr_next = 1 /\ tr_calls = <<>>
    /\ tr_total = 0 /\ tr_written = 0 /\ normalized_count = 0 /\ strict_failures = 0
    /\ tr_run = 1
    /\ tr_pc = "loop"

TranslateFrame ==
    UNCHANGED <<kjv_vars, rule_vars, polish_vars, caps_vars, tr_rows, tr_before,
                tr_resume, lock_mode, already_done, tr_run>>

\* "if args.resume and ref in already_done: continue"
SkipRow ==
    /\ tr_pc = "loop" /\ tr_next <= Len(tr_rows)
    /\ tr_resume /\ tr_rows[tr_next].ref \in already_done
    /\ TranslateFrame
    /\ tr_total' = tr_total + 1
    /\ tr_next' = tr_next + 1
    /\ UNCHANGED <<tr_out, tr_calls, tr_written, normalized_count, strict_failures, tr_pc>>

\* a row that is not skipped: the model is called, its text normalized,
\* checked for strong archaisms and locks, and written
TranslateRow(output_text) ==
    /\ tr_pc = "loop" /\ tr_next <= Len(tr_rows)
    /\ ~(tr_resume /\ tr_rows[tr_next].ref \in already_done)
    /\ TranslateFrame
    /\ \E ref \in {tr_rows[tr_next].ref} :
       \E out_text \in {translate_normalize_space(Strip(output_text))} :
       \E out_text2 \in {dearchaicize(out_text)} :
          /\ tr_total' = tr_total + 1
          /\ tr_calls' = Append(tr_calls, ref)
          /\ normalized_count' = normalized_count + Bump(out_text2 # out_text)
          /\ IF find_strong_archaism(out_text2)
             THEN /\ strict_failures' = strict_failures + 1
                  /\ tr_pc' = "error"
                  /\ UNCHANGED <<tr_out, tr_written, tr_next>>
             ELSE IF lock_mode # "off" /\ ~check_locks(ref, out_text2, lock_mode)
             THEN /\ tr_pc' = "error"
                  /\ UNCHANGED <<tr_out, tr_written, tr_next, strict_failures>>
             ELSE /\ tr_out' = Append(tr_out, [ref |-> ref, translation |-> out_text2])
                  /\ tr_written' = tr_written + 1
                  /\ tr_next' = tr_next + 1
                  /\ UNCHANGED <<strict_failures, tr_pc>>

\* client.responses.create raises, or the run is interrupted during the call
TranslateCallRaises ==
    /\ tr_pc = "loop" /\ tr_next <= Len(tr_rows)
    /\ ~(tr_resume /\ tr_rows[tr_next].ref \in already_done)
    /\ TranslateFrame
    /\ tr_total' = tr_total + 1
    /\ tr_pc' = "error"
    /\ UNCHANGED <<tr_out, tr_next, tr_calls, tr_written, normalized_count,
                   strict_failures>>

\* the rows are exhausted: the totals are printed
TranslateFinish ==
    /\ tr_pc = "loop" /\ tr_next > Len(tr_rows)
    /\ TranslateFrame
    /\ tr_pc' = "done"
    /\ UNCHANGED <<tr_out, tr_next, tr_calls, tr_total, tr_written, normalized_count,
                   strict_failures>>

\* the script is started again on the same --in and --out, with or without
\* --resume
TranslateAgain(resume) ==
    /\ tr_pc \in {"done", "error"} /\ tr_run < MaxRuns
    /\ UNCHANGED <<kjv_vars, rule_vars, polish_vars, caps_vars, tr_rows, lock_mode>>
    /\ tr_run' = tr_run + 1
    /\ tr_resume' = resume
    /\ already_done' = IF resume THEN load_existing_output_refs(tr_out) ELSE {}
    /\ tr_out' = IF resume THEN tr_out ELSE <<>>
    /\ tr_before' = tr_out'
    /\ tr_next' = 1 /\ tr_calls' = <<>>
    /\ tr_total' = 0 /\ tr_written' = 0 /\ normalized_count' = 0 /\ strict_failures' = 0
    /\ tr_pc' = "loop"

TranslateNext ==
    \/ SkipRow
    \/ \E output_text \in ModelTexts : TranslateRow(output_text)
    \/ TranslateCallRaises
    \/ TranslateFinish
    \/ \E resume \in BOOLEAN : TranslateAgain(resume)

SpecTranslate == TranslateInit /\ [][TranslateNext]_vars

\* ------------------------------------------------------------------------
\* Properties
\* ------------------------------------------------------------------------

\* The words of a text: its maximal runs of word characters, and each other
\* character on its own.
RECURSIVE Tokens(_)
Tokens(s) ==
    IF s = <<>> THEN <<>>
    ELSE IF IsWordChar(s[1])
         THEN LET n == Min({m \in 1..Len(s) : m = Len(s) \/ ~IsWordChar(s[m + 1])})
              IN  <<SubSeq(s, 1, n)>> \o Tokens(SubSeq(s, n + 1, Len(s)))
         ELSE <<<<s[1]>>>> \o Tokens(Tail(s))

LowPronouns == {w_he, w_him, w_his, w_himself}

CapPronouns == {w_He, w_Him, w_His, w_Himself}

CapOf(w) == CASE w = w_he -> w_He [] w = w_him -> w_Him [] w = w_his -> w_His
              [] w = w_himself -> w_Himself [] OTHER -> w

LowOf(w) == CASE w = w_He -> w_he [] w = w_Him -> w_him [] w = w_His -> w_his
              [] w = w_Himself -> w_himself [] OTHER -> w

HasToken(s, W) == Range(Tokens(s)) \cap W # {}

\* the whole word w occurs in s at position i
WordAt(s, i, w) ==
    /\ LitAt(s, i, w, FALSE)
    /\ AtBoundary(s, i)
    /\ AtBoundary(s, i + Len(w))

\* the verse names the deity: God, LORD (also in "the LORD") or Lord GOD
HasDivineMarker(s) ==
    \E i \in 1..Len(s) :
        WordAt(s, i, w_God) \/ WordAt(s, i, w_LORD) \/ WordAt(s, i, <<"L","o","r","d"," ","G","O","D">>)

\* the class of each reference text of the corpus
CorpusClass == [r \in DOMAIN KjvCorpus |-> classify_kjv(KjvCorpus[r])]

\* the usage class of a ref (spec 4.1): unavailable without KJV text
UsageClass(ref) ==
    IF NoKjvText(ref) THEN "unavailable"
    ELSE IF kjv_map = KjvCorpus THEN CorpusClass[ref]
    ELSE classify_kjv(kjv_map[ref])

ReviewHas(ref, reasons) ==
    \E i \in DOMAIN review : review[i].ref = ref /\ review[i].reason \in reasons

\* the reasons the run gives for a mixed reference text (mixed_reference)
MixedReasons == {"mixed_pronouns_in_kjv", "mixed_pronouns_in_kjv_cap_only",
                 "mixed_pronouns_in_kjv_normalize_anyway"}

\* the lines that were written: line k of book_in gave record k of book_out
Written == 1..Len(book_out)

C2_DivineOnlyCapsAll ==
    \A k \in Written :
        UsageClass(book_in[k].ref) = "divine_only" =>
            LET tin == Tokens(book_in[k].translation)
                tout == Tokens(book_out[k].translation)
            IN  /\ ~HasToken(book_out[k].translation, LowPronouns)
                /\ Len(tout) = Len(tin)
                /\ \A j \in DOMAIN tin : tout[j] = CapOf(tin[j])

C2_Witness ==
    \E k \in Written :
        /\ UsageClass(book_in[k].ref) = "divine_only"
        /\ HasToken(book_in[k].translation, {w_him})
        /\ HasToken(book_in[k].translation, {w_he})
        /\ HasToken(book_out[k].translation, {w_Him})

\* C3: when the reference text of a verse's ref is human_only, the written
\* text has no whole-word He/Him/His/Himself: each is replaced by its
\* lowercase form and every other token is the candidate's.
C3_HumanOnlyDecapsAll ==
    \A k \in Written :
        UsageClass(book_in[k].ref) = "human_only" =>
            LET tin == Tokens(book_in[k].translation)
                tout == Tokens(book_out[k].translation)
            IN  /\ ~HasToken(book_out[k].translation, CapPronouns)
                /\ Len(tout) = Len(tin)
                /\ \A j \in DOMAIN tin : tout[j] = LowOf(tin[j])

C3_Witness ==
    \E k \in Written :
        /\ UsageClass(book_in[k].ref) = "human_only"
        /\ HasToken(book_in[k].translation, {w_His})
        /\ HasToken(book_in[k].translation, {w_Himself})
        /\ HasToken(book_out[k].translation, {w_his})

\* C4: classify_kjv returns exactly one class, decided by the whole-word
\* pronouns only: mixed iff a capitalized and a lowercase form occur,
\* divine_only iff only capitalized, human_only iff only lowercase, none iff
\* neither; a pronoun inside a longer word is not counted.
C4_ClassifyByWholeWords ==
    rule_fn = "classify_kjv" =>
        LET cap == HasToken(rule_text, CapPronouns)
            low == HasToken(rule_text, LowPronouns)
            cls == rule_out[1]
        IN  /\ cls \in {"mixed", "divine_only", "human_only", "none"}
            /\ cls = "mixed" <=> (cap /\ low)
            /\ cls = "divine_only" <=> (cap /\ ~low)
            /\ cls = "human_only" <=> (low /\ ~cap)
            /\ cls = "none" <=> (~cap /\ ~low)

C4_Witness ==
    /\ rule_fn = "classify_kjv"
    /\ rule_out[1] = "divine_only"
    /\ Contains(rule_text, w_she)


\* the rows that were written: row k of rows gave record k of polish_out
PolishWritten == 1..Len(polish_out)

\* the guard blocked row k
Blocked(k) == \E i \in DOMAIN warnings : warnings[i].row = k

\* the text the rewriting of row k started from
RowInput(k) == IF responses[k].called THEN responses[k].output_text ELSE rows[k].translation

\* apply_enforcement was the last step that rewrote the written text of row k
EnforcedLast(k) ==
    /\ enforce
    /\ IF responses[k].called
       THEN ~Blocked(k) /\ ~(kjv_case /\ KjvTextOf(rows[k].ref) # <<>>)
       ELSE enforce_only

RuleIn(k) == IF k = 1 THEN rule_text ELSE rule_out[k - 1]

\* Human-subject markers (spec 4.3: a configurable name/role list).  The
\* source has no such list; Moses stands for any entry of it.
HumanMarkers == {w_Moses}

DivineWords == {w_God, w_LORD, w_GOD}

\* token j has a human marker to its left with no divine word in between
HumanCloser(toks, j) ==
    \E h \in 1..(j - 1) :
        /\ toks[h] \in HumanMarkers
        /\ \A d \in (h + 1)..(j - 1) : toks[d] \notin DivineWords

C8_ResolverMonotone ==
    rule_fn = "enforce_reverential_pronouns_minimal" =>
        /\ \A k \in DOMAIN rule_out :
              LET tin == Tokens(RuleIn(k))
                  tout == Tokens(rule_out[k])
              IN  /\ Len(tout) = Len(tin)
                  /\ \A j \in DOMAIN tin : tin[j] \in CapPronouns => tout[j] = tin[j]
                  /\ ~HasToken(RuleIn(k), LowPronouns) => rule_out[k] = RuleIn(k)
        /\ Len(rule_out) >= 2 => rule_out[2] = rule_out[1]

C8_Witness ==
    /\ rule_fn = "enforce_reverential_pronouns_minimal"
    /\ Len(rule_out) = 2
    /\ HasToken(rule_text, CapPronouns)
    /\ HasToken(rule_text, LowPronouns)
    /\ rule_out[1] # rule_text
    /\ ~HasToken(rule_out[1], LowPronouns)

\* the rules of the Rule Pipeline, and the pipeline itself
PipelineRules == {"apply_enforcement", "enforce_lord_caps", "enforce_between_from",
                  "enforce_compound_numbers", "enforce_reverential_pronouns_minimal",
                  "strip_internal_linebreaks"}

\* C9: applying the Rule Pipeline, or any one of its rules, to its own result
\* changes nothing.
C9_Idempotent ==
    (rule_fn \in PipelineRules /\ Len(rule_out) >= 2) => rule_out[2] = rule_out[1]

\* C10: the divine-name casing rule leaves every whole-word "Lord GOD" in
\* place, and turns every whole-word "the Lord" that is not followed by GOD
\* into "the LORD".
C10_LordGodPreserved ==
    (rule_fn = "enforce_lord_caps" /\ rule_out # <<>>) =>
        \A i \in 1..Len(rule_text) :
            /\ WordAt(rule_text, i, <<"L","o","r","d"," ","G","O","D">>) => WordAt(rule_out[1], i, <<"L","o","r","d"," ","G","O","D">>)
            /\ (WordAt(rule_text, i, <<"t","h","e"," ","L","o","r","d">>)
                  /\ ~M(<<WS, Lit(w_GOD), B>>, FALSE, rule_text, 1, i + 8, <<>>).ok)
               => WordAt(rule_out[1], i, <<"t","h","e"," ","L","O","R","D">>)

\* the word between occurs in s, in any case
HasBetween(s) == Search(<<B, Lit(<<"b","e","t","w","e","e","n">>), B>>, TRUE, s)

\* "to divide X from Y"
DivideFrom(X, Y) == Join(<<<<"t","o"," ","d","i","v","i","d","e">>, X, <<"f","r","o","m">>, Y>>)

\* C11 as stated: for all phrases X and Y without comma or semicolon, the
\* calque rule rewrites "to divide between X and between Y" to
\* "to divide X from Y".
C11_DivideBetweenAny ==
    (rule_fn = "enforce_between_from" /\ rule_out # <<>>) =>
        \A X \in Phrases, Y \in Phrases :
            rule_text = DivideBetween(X, Y) => rule_out[1] = DivideFrom(X, Y)

\* C11 amended: for all phrases X and Y that contain no comma, no semicolon
\* and not the word between, the calque rule rewrites
\* "to divide between X and between Y" to "to divide X from Y"; a phrase X
\* that itself contains "and between" is cut at its first "and between".
C11_DivideBetweenPlain ==
    (rule_fn = "enforce_between_from" /\ rule_out # <<>>) =>
        \A X \in Phrases, Y \in Phrases :
            (rule_text = DivideBetween(X, Y) /\ ~HasBetween(X) /\ ~HasBetween(Y))
                => rule_out[1] = DivideFrom(X, Y)

C11_Witness ==
    /\ rule_fn = "enforce_between_from" /\ rule_out # <<>>
    /\ rule_text = <<"t","o"," ","d","i","v","i","d","e"," ","b","e","t","w","e","e","n"," ","t","h","e"," ","l","i","g","h","t"," ","a","n","d"," ","b","e","t","w","e","e","n"," ","d","a","r","k","n","e","s","s">>
    /\ rule_out[1] = <<"t","o"," ","d","i","v","i","d","e"," ","t","h","e"," ","l","i","g","h","t"," ","f","r","o","m"," ","d","a","r","k","n","e","s","s">>

\* "separated X from Y"
SeparatedFrom(X, Y) == Join(<<<<"s","e","p","a","r","a","t","e","d">>, X, <<"f","r","o","m">>, Y>>)

\* C12: for all phrases X and Y without comma or semicolon, the calque rule
\* rewrites "separated between X and between Y" to "separated X from Y": the
\* result keeps no "and between" and contains "from".
C12_SeparatedBetweenFrom ==
    (rule_fn = "enforce_between_from" /\ rule_out # <<>>) =>
        \A X \in Phrases, Y \in Phrases :
            (rule_text = SeparatedBetween(X, Y) /\ ~HasBetween(X) /\ ~HasBetween(Y)) =>
                /\ rule_out[1] = SeparatedFrom(X, Y)
                /\ ~Contains(rule_out[1], <<"a","n","d"," ","b","e","t","w","e","e","n">>)
                /\ Contains(rule_out[1], <<"f","r","o","m">>)

\* the candidate begins with a heading or commentary marker, or with a number
BeginsWithMarker(r) ==
    r # <<>> /\ (r[1] = "#" \/ r[1] \in Digits
                 \/ \E w \in CommentaryPrefixes : LowerStr(SubSeq(r, 1, Min({Len(r), Len(w)}))) = w)

\* C13: for a non-empty candidate that begins with no marker and no number,
\* similarity_guard accepts iff the normalized original is shorter than 20
\* characters or 0.60 <= len(candidate) / len(original) <= 1.60, both bounds
\* included; below it answers too_short, above too_long.
C13_GuardRatioInclusive ==
    rule_fn = "similarity_guard" =>
        LET o == Len(normalize_space(rule_original))
            r == normalize_space(rule_text)
            res == rule_out[1]
        IN  (r # <<>> /\ ~BeginsWithMarker(r)) =>
                IF o >= 20
                THEN /\ res.ok <=> (60 * o <= 100 * Len(r) /\ 100 * Len(r) <= 160 * o)
                     /\ 100 * Len(r) < 60 * o => res.reason = "too_short"
                     /\ 100 * Len(r) > 160 * o => res.reason = "too_long"
                ELSE res.ok

C13_Witness ==
    /\ rule_fn = "similarity_guard"
    /\ Len(normalize_space(rule_original)) = 20
    /\ Len(rule_original) > 20
    /\ Len(normalize_space(rule_text)) = 12
    /\ rule_out[1].ok

\* the reasons similarity_guard gives for a rejection
GuardReasons == {"empty_output", "commentary_or_heading", "added_verse_number",
                 "too_short", "too_long"}

\* the step takes a row that was sent to the model and writes a record for it
ModelledRowWritten ==
    /\ Len(polish_out') = Len(polish_out) + 1
    /\ responses'[Len(responses')].called

\* the step prints a "Guard blocked" warning
GuardRejects == Len(warnings') = Len(warnings) + 1

\* C14: when the guard rejects a rewritten verse, the text written for it is
\* the text before the rewrite (the candidate text after
\* strip_internal_linebreaks), the reason is printed, blocked increases by
\* one, changed does not increase and the loop goes on; and a rewritten text
\* that is written without a warning is one the guard accepts.
C14_GuardRejectionRecovered ==
    [][ModelledRowWritten =>
          \E n \in {Len(polish_out')} :
          \E original \in {strip_internal_linebreaks(rows'[n].translation)} :
          \E written \in {polish_out'[n].translation} :
          \E accepted \in {similarity_guard(original, written).ok} :
              IF GuardRejects
              THEN /\ written = original
                   /\ warnings'[Len(warnings')].ref = rows'[n].ref
                   /\ warnings'[Len(warnings')].reason \in GuardReasons
                   /\ blocked' = blocked + 1
                   /\ polish_changed' = polish_changed
                   /\ polish_pc' = "loop"
              ELSE /\ accepted
                   /\ warnings' = warnings
                   /\ blocked' = blocked]_vars

C14_Witness ==
    \E i \in DOMAIN warnings :
        /\ warnings[i].row < Len(polish_out)
        /\ warnings[i].reason = "too_short"
        /\ responses[warnings[i].row].output_text # <<>>
        /\ polish_out[warnings[i].row].translation
              = strip_internal_linebreaks(rows[warnings[i].row].translation)
        /\ blocked = 1
        /\ polish_changed = 1

\* read_approved has returned
ApprovedRead == caps_pc \in {"apply", "done"}

\* the ref and the text a row of the artifact stands for
RowRef(i) == Strip(OrEmpty(review_csv[i].ref))

RowSuggested(i) == OrEmpty(review_csv[i].suggested)

\* the rows whose decision cell is exactly APPROVE, for the ref as written
ApproveRowsLiteral(ref) ==
    {i \in DOMAIN review_csv :
        review_csv[i].decision = <<"A","P","P","R","O","V","E">> /\ review_csv[i].ref = ref}

\* the rows whose decision reads APPROVE once surrounding whitespace is
\* removed and case is ignored, for the ref with surrounding whitespace removed
ApproveRows(ref) ==
    {i \in DOMAIN review_csv :
        UpperStr(Strip(OrEmpty(review_csv[i].decision))) = <<"A","P","P","R","O","V","E">> /\ RowRef(i) = ref}

OneOutputPerInput ==
    /\ Len(caps_out) = Len(caps_in)
    /\ caps_total = Len(caps_in)
    /\ \A k \in DOMAIN caps_in : caps_out[k].ref = caps_in[k].ref

ApprovedRowIndexes ==
    {i \in DOMAIN review_csv :
        UpperStr(Strip(OrEmpty(review_csv[i].decision))) = <<"A","P","P","R","O","V","E">>}

\* C17: every row suggest_caps writes has an empty decision; a verse's text
\* is changed by the override pass only to the suggested text of a row that
\* carries an approval for its ref; and with no approved row in the
\* artifact every verse is written with its text unchanged.
C17_NoMergeWithoutApprove ==
    /\ \A i \in DOMAIN worksheet : worksheet[i].decision = <<>>
    /\ \A k \in DOMAIN caps_out :
          caps_out[k] # caps_in[k] =>
              \E i \in ApprovedRowIndexes :
                  /\ RowRef(i) = caps_in[k].ref
                  /\ caps_out[k].translation = RowSuggested(i)
    /\ (ApprovedRead /\ ApprovedRowIndexes = {}) =>
          /\ approved = EmptyMap
          /\ caps_changed = 0
          /\ caps_out = caps_in

C17_Witness ==
    /\ caps_pc = "done"
    /\ ApprovedRowIndexes = {}
    /\ \E i, j \in DOMAIN worksheet :
          /\ review_csv[i].decision = <<"R","E","J","E","C","T">>
          /\ review_csv[j].decision = <<>>
    /\ \E k \in DOMAIN caps_in : \E i \in DOMAIN worksheet :
          /\ caps_in[k].ref = worksheet[i].ref
          /\ caps_in[k].translation = worksheet[i].original
          /\ worksheet[i].suggested # worksheet[i].original
          /\ caps_out[k] = caps_in[k]

\* line k of --book_in lacks a required field or has an empty ref
StructuralError(k) == book_in[k].ref = "" \/ ~book_in[k].given

\* C18: a candidate line that lacks its ref or its translation, or whose ref
\* is empty, stops the run with an error at that line, and no record is
\* written for it.
C18_StructuralErrorAborts ==
    \A k \in DOMAIN book_in :
        StructuralError(k) =>
            /\ pc = "error"
            /\ k = Len(book_in)
            /\ Len(book_out) < k

\* the run has not stopped with an error
NoRunError == pc \in {"loop", "done"}

\* every line read so far gave one record, with its ref, in the same position
OneRecordPerVerse ==
    /\ Len(book_out) = Len(book_in)
    /\ total = Len(book_in)
    /\ \A k \in DOMAIN book_in : book_out[k].ref = book_in[k].ref

\* the review manifest that was written has an entry for the ref
InManifest(ref) == \E i \in DOMAIN review_out : review_out[i].ref = ref

\* C19: a run without an error completes; every input verse has exactly one
\* output record with its ref, in input order; and in the completed run every
\* verse whose usage is mixed or unavailable has an entry in the review
\* manifest.
C19_RunCompletesNoVerseDropped ==
    /\ [](NoRunError => OneRecordPerVerse)
    /\ [](pc = "done" =>
            \A k \in DOMAIN book_in :
                UsageClass(book_in[k].ref) \in {"mixed", "unavailable"}
                    => InManifest(book_in[k].ref))
    /\ <>(pc \in {"done", "error"})

C19_Witness ==
    /\ pc = "done" /\ Len(book_in) = MaxLines
    /\ OneRecordPerVerse
    /\ \E k \in DOMAIN book_in :
          UsageClass(book_in[k].ref) = "mixed" /\ InManifest(book_in[k].ref)
    /\ \E k \in DOMAIN book_in :
          UsageClass(book_in[k].ref) = "unavailable" /\ InManifest(book_in[k].ref)

\* C20: no text written to --out contains both "angel of the LORD" and
\* "angel of the Lord", whatever flags the run was started with.
C20_NoMixedAngelPhrase ==
    \A k \in DOMAIN polish_out : validate_enforcement(polish_out[k].translation)

\* the text contains both casings of the angel phrase
BothCasings(text) ==
    /\ Contains(text, <<"a","n","g","e","l"," ","o","f"," ","t","h","e"," ","L","O","R","D">>)
    /\ Contains(text, <<"a","n","g","e","l"," ","o","f"," ","t","h","e"," ","L","o","r","d">>)

\* the rules applied to each output_text the model may return, stripped as
\* main strips it
RulesOnOutputs ==
    [o \in UNION {ModelOutputs[r] : r \in DOMAIN ModelOutputs} |->
        enforced(strip_internal_linebreaks(Strip(o)))]

RulesOnOutput(o) ==
    IF o \in DOMAIN RulesOnOutputs THEN RulesOnOutputs[o]
    ELSE enforced(strip_internal_linebreaks(Strip(o)))

\* the rules applied to each input text, with its line breaks collapsed
RulesOnBook ==
    [t \in {Book[r] : r \in DOMAIN Book} |-> enforced(strip_internal_linebreaks(t))]

RulesOnRow(t) ==
    IF t \in DOMAIN RulesOnBook THEN RulesOnBook[t]
    ELSE enforced(strip_internal_linebreaks(t))

\* the verses with locks, each output_text of the model and each KJV text the
\* run may hold for the verse
LockCases ==
    UNION {{<<r, o, kj>> : o \in ModelOutputs[r],
                           kj \in {<<>>} \cup (IF r \in DOMAIN PolishKjv
                                                THEN {PolishKjv[r]} ELSE {})} :
           r \in DOMAIN PolishAnchors \cap DOMAIN ModelOutputs}

\* the rules applied again to the text the locks were restored in
RulesOnLockCases ==
    [c \in LockCases |->
        enforced(enforce_phrase_locks(RulesOnOutput(c[2]), PolishAnchors[c[1]], c[3]).text)]

RulesOnLocked(ref, o, kj) ==
    IF anchors = PolishAnchors /\ <<ref, o, kj>> \in DOMAIN RulesOnLockCases
    THEN RulesOnLockCases[<<ref, o, kj>>]
    ELSE enforced(enforce_phrase_locks(RulesOnOutput(o), LocksOf(ref), kj).text)

\* the invariant check of apply_enforcement is run for row k on a text that
\* holds both casings: after the rules on the model's output, after the rules
\* on the locked text, or after the rules on a row that is not sent to the model
ValidationFinds(k) ==
    /\ enforce
    /\ IF responses[k].called
       THEN \E e1 \in {RulesOnOutput(responses[k].output_text)} :
               IF BothCasings(e1) THEN TRUE
               ELSE /\ LocksOf(rows[k].ref) # <<>>
                    /\ BothCasings(RulesOnLocked(rows[k].ref, responses[k].output_text,
                                                 KjvTextOf(rows[k].ref)))
       ELSE /\ enforce_only
            /\ BothCasings(RulesOnRow(rows[k].translation))

\* C21: when the invariant check finds both casings of the phrase in the
\* rewritten text of a verse, the run stops with an error at that verse: the
\* verse is the last row taken, no record is written for it, and the output
\* holds only the records of the rows before it.
C21_ValidationErrorStops ==
    \A k \in DOMAIN rows :
        ValidationFinds(k) =>
            /\ polish_pc = "error"
            /\ k = Len(rows)
            /\ Len(polish_out) = k - 1
            /\ \A j \in DOMAIN polish_out : polish_out[j].ref = rows[j].ref

C21_Witness ==
    /\ polish_pc = "error"
    /\ Len(rows) = 2
    /\ ValidationFinds(2)
    /\ ~ValidationFinds(1)
    /\ Len(polish_out) = 1

\* the review items a verse gives, from its ref alone
ItemsFor(ref) ==
    IF UsageClass(ref) = "unavailable"
    THEN <<[ref |-> ref, reason |-> "missing_kjv_ref"]>>
    ELSE review_items_of(UsageClass(ref), mixed_policy, ref)

\* the review items of a sequence of verses, verse by verse
RECURSIVE ReviewOf(_)
ReviewOf(lines) ==
    IF lines = <<>> THEN <<>>
    ELSE ReviewOf(SubSeq(lines, 1, Len(lines) - 1)) \o ItemsFor(lines[Len(lines)].ref)

\* C22: the text written for a verse and its review reason are functions of
\* the verse's own text and of the reference text of its ref (under the run's
\* mixed_policy), wherever the verse stands in the input: two verses with the
\* same ref and text get the same record, the review list is the verses'
\* own items in input order, and every counter is the number of verses that
\* satisfy a condition on the verse alone, so that any reordering of the
\* verses gives the same outcomes and the same counters.
C22_OrderIndependent ==
    /\ \A k \in Written :
          /\ book_out[k].ref = book_in[k].ref
          /\ book_out[k].translation =
                new_text_of(UsageClass(book_in[k].ref), mixed_policy, book_in[k].translation)
    /\ \A j, k \in Written :
          (book_in[j].ref = book_in[k].ref /\ book_in[j].translation = book_in[k].translation)
              => book_out[j] = book_out[k]
    /\ review = ReviewOf(SubSeq(book_in, 1, Len(book_out)))
    /\ total = Len(book_in)
    /\ missing_kjv = Cardinality({k \in Written : UsageClass(book_in[k].ref) = "unavailable"})
    /\ divine_only = Cardinality({k \in Written : UsageClass(book_in[k].ref) = "divine_only"})
    /\ human_only = Cardinality({k \in Written : UsageClass(book_in[k].ref) = "human_only"})
    /\ mixed = Cardinality({k \in Written : UsageClass(book_in[k].ref) = "mixed"})
    /\ none = Cardinality({k \in Written : UsageClass(book_in[k].ref) = "none"})
    /\ changed = Cardinality({k \in Written :
                                 book_out[k].translation # book_in[k].translation})
    /\ mixed_changed = Cardinality({k \in Written :
                                 /\ UsageClass(book_in[k].ref) = "mixed"
                                 /\ book_out[k].translation # book_in[k].translation})

\* a completed run of two different verses, the first rewritten and the second,
\* whose reference text has no pronoun, copied
C22_Witness ==
    /\ pc = "done"
    /\ Len(book_out) = 2
    /\ UsageClass(book_in[1].ref) = "divine_only"
    /\ book_out[1].translation # book_in[1].translation
    /\ UsageClass(book_in[2].ref) = "none"
    /\ book_out[2].translation = book_in[2].translation
    /\ book_in[2].translation # book_in[1].translation
    /\ book_in[2].translation # book_out[1].translation

C24_EnforceOnlyAppliesRules ==
    \A k \in PolishWritten :
        enforce_only =>
            /\ ~responses[k].called
            /\ polish_out[k].translation =
                  enforced(strip_internal_linebreaks(rows[k].translation))

\* the refs of the records of the --out file
RefsInFile(file) == {Strip(file[k].ref) : k \in DOMAIN file}

DistinctInputRefs ==
    \A i, j \in DOMAIN tr_rows : i # j => tr_rows[i].ref # tr_rows[j].ref

\* C25: in a run with --resume, the records --out held are kept, and a row
\* whose ref is present in one of them is not sent to the model and gets no
\* second record; so a --resume run that completes, after a run that was
\* aborted, leaves exactly one record for each input ref, in input order
\* (the input refs being distinct).
C25_ResumeSkipsDone ==
    /\ tr_resume =>
          /\ Len(tr_before) <= Len(tr_out)
          /\ SubSeq(tr_out, 1, Len(tr_before)) = tr_before
          /\ \A i \in DOMAIN tr_rows :
                tr_rows[i].ref \in RefsInFile(tr_before) =>
                    /\ \A c \in DOMAIN tr_calls : tr_calls[c] # tr_rows[i].ref
                    /\ \A j \in (Len(tr_before) + 1)..Len(tr_out) :
                          tr_out[j].ref # tr_rows[i].ref
    /\ (tr_resume /\ tr_run > 1 /\ tr_pc = "done" /\ DistinctInputRefs) =>
          [k \in DOMAIN tr_out |-> tr_out[k].ref] = [k \in DOMAIN tr_rows |-> tr_rows[k].ref]

\* a reference record exists for the ref
HasReferenceRecord(ref) == ref \in DOMAIN kjv_map

\* C26: a verse is treated as unavailable (a missing_kjv_ref review item, the
\* text written unchanged, counted in missing_kjv) if and only if no reference
\* record exists for its ref, and a verse whose reference record exists is
\* counted in exactly one of divine_only, human_only, mixed, none.
C26_UnavailableIffNoRecord ==
    /\ \A k \in Written :
          /\ ReviewHas(book_in[k].ref, {"missing_kjv_ref"})
                <=> ~HasReferenceRecord(book_in[k].ref)
          /\ ~HasReferenceRecord(book_in[k].ref)
                => book_out[k].translation = book_in[k].translation
    /\ missing_kjv = Cardinality({k \in Written : ~HasReferenceRecord(book_in[k].ref)})
    /\ divine_only + human_only + mixed + none
          = Cardinality({k \in Written : HasReferenceRecord(book_in[k].ref)})

\* C27: every written text that the rules changed was accepted by
\* similarity_guard against the text before the rewrite (the candidate text
\* after strip_internal_linebreaks), whatever flags the run was started with.
C27_RewrittenTextGuarded ==
    \A k \in PolishWritten :
        \E original \in {strip_internal_linebreaks(rows[k].translation)} :
            polish_out[k].translation # original =>
                similarity_guard(original, polish_out[k].translation).ok

\* C28: while the run has not raised, after every verse and at the end of the
\* run, the statistics satisfy: total = divine_only + human_only + mixed +
\* none + missing_kjv; review_targets (the length of review) = missing_kjv +
\* mixed under every policy; mixed_changed <= mixed, and mixed_changed = 0
\* under skip; changed is the number of verses whose written text differs
\* from the input text, and changed <= divine_only + human_only + mixed_changed.
C28_StatisticsConsistent ==
    NoRunError =>
        /\ total = divine_only + human_only + mixed + none + missing_kjv
        /\ total = Len(book_out)
        /\ Len(review) = missing_kjv + mixed
        /\ pc = "done" => Len(review_out) = missing_kjv + mixed
        /\ mixed_changed <= mixed
        /\ mixed_policy = "skip" => mixed_changed = 0
        /\ changed = Cardinality({k \in Written :
                                     book_out[k].translation # book_in[k].translation})
        /\ changed <= divine_only + human_only + mixed_changed

\* a completed run under a policy that rewrites mixed verses: one mixed verse
\* that was changed and one verse without reference text
C28_Witness ==
    /\ pc = "done"
    /\ mixed_policy # "skip"
    /\ total = 2 /\ mixed = 1 /\ mixed_changed = 1 /\ missing_kjv = 1
    /\ changed = 1
    /\ Len(review_out) = 2

\* the pronouns of PRONOUN_RE
SuggestPronouns == {<<"h","e">>, <<"h","i","m">>, <<"h","i","s">>, <<"y","o","u">>, <<"y","o","u","r">>, <<"y","o","u","r","s">>, <<"h","i","m","s","e","l","f">>}

\* the positions where a whole-word lowercase pronoun begins, in s
PronounStarts(s) ==
    {i \in 1..Len(s) : \E w \in SuggestPronouns : WordAt(s, i, w)}

\* the text holds a divine anchor: the whole word LORD, GOD or God ("O LORD"
\* and "O God" hold one of them)
HasAnchorWord(s) ==
    \E i \in 1..Len(s) : WordAt(s, i, w_LORD) \/ WordAt(s, i, w_GOD) \/ WordAt(s, i, w_God)

\* s with the characters at the positions P in upper case
CapAt(s, P) == [i \in 1..Len(s) |-> IF i \in P THEN Upper(s[i]) ELSE s[i]]

\* the k smallest elements of the set P of numbers
FirstK(P, k) == {i \in P : Cardinality({j \in P : j <= i}) <= k}

\* C29: suggest_line returns for every text; for a text that holds a divine
\* anchor its pronoun suggestions are, in order, one per whole-word lowercase
\* occurrence of he/him/his/himself/you/your/yours, the k-th suggesting the
\* original with exactly its first k occurrences capitalized; for a text
\* without an anchor there is no pronoun suggestion.
C29_PronounSuggestions ==
    rule_fn = "suggest_line" =>
        /\ Len(rule_out) = 1
        /\ \E pron \in {SelectSeq(rule_out[1], LAMBDA x : x.kind = "pronoun")} :
           \E starts \in {PronounStarts(rule_text)} :
              IF HasAnchorWord(rule_text)
              THEN /\ Len(pron) = Cardinality(starts)
                   /\ \A k \in DOMAIN pron :
                         /\ pron[k].original = rule_text
                         /\ pron[k].suggested = CapAt(rule_text, FirstK(starts, k))
                   /\ \A k \in DOMAIN pron : rule_out[1][k] = pron[k]
              ELSE pron = <<>>

\* a verse with an anchor and two lowercase pronouns: two suggestions, the
\* second with both capitalized
C29_Witness ==
    /\ rule_fn = "suggest_line"
    /\ HasAnchorWord(rule_text)
    /\ Cardinality(PronounStarts(rule_text)) = 2
    /\ Len(SelectSeq(rule_out[1], LAMBDA x : x.kind = "pronoun")) = 2
    /\ rule_out[1][2].suggested = CapAt(rule_text, PronounStarts(rule_text))
    /\ rule_out[1][1].suggested # rule_out[1][2].suggested

====
